---- MODULE Spec2Model ----
(***************************************************************************)
(* eth-kms-signer: signing Ethereum transactions and messages with a KMS   *)
(* secp256k1 key.  src/src/core/signing.ts holds two revisions of the      *)
(* signing module: the web3/@ethereumjs revision (lines 1-500) and the     *)
(* ethers revision (lines 502-883).  Both are modelled; the variable rev   *)
(* says which revision a call runs.                                        *)
(*                                                                         *)
(* 256-bit integers are kept as 32-byte big-endian byte sequences, exactly *)
(* the Buffers the code holds; BigInt comparison and subtraction are done  *)
(* on those sequences.                                                     *)
(*                                                                         *)
(* Five further specifications share the variables: SubmitSpec             *)
(* (submitTransaction in its three revisions), SetupSpec                   *)
(* (privateKeyToPKCS8, importKMSKey and createKMSKey), PublicKeySpec       *)
(* (getPublicKey and getEthereumAddress), DerSpec (signTransaction with a  *)
(* signer whose Signature field need not be well-formed DER) and CliSpec   *)
(* (the sign and submit command lines).                                    *)
(***************************************************************************)
EXTENDS Integers, Sequences, FiniteSets, TLC

(***************************************************************************)
(* Bounds of the model.                                                    *)
(***************************************************************************)
MaxNonce == 1

(***************************************************************************)
(* Optional values: a JavaScript value that may be undefined.              *)
(***************************************************************************)
None == <<>>
Some(v) == <<v>>
IsSome(x) == x # None
Get(x) == x[1]

(***************************************************************************)
(* Byte-sequence arithmetic (big-endian, fixed width).                     *)
(***************************************************************************)
Byte == 0..255

Zeros(n) == [i \in 1..n |-> 0]

\* a > b for big-endian byte sequences of equal length (BigInt `>`)
RECURSIVE GreaterFrom(_, _, _)
GreaterFrom(a, b, i) ==
  IF i > Len(a) THEN FALSE
  ELSE IF a[i] > b[i] THEN TRUE
  ELSE IF a[i] < b[i] THEN FALSE
  ELSE GreaterFrom(a, b, i + 1)

Greater(a, b) == GreaterFrom(a, b, 1)
LessEq(a, b) == ~Greater(a, b)

\* a - b for equal-length sequences with a >= b (BigInt `-`), same width
RECURSIVE SubFrom(_, _, _, _)
SubFrom(a, b, i, borrow) ==
  IF i = 0 THEN <<>>
  ELSE LET d == a[i] - b[i] - borrow
       IN  IF d < 0 THEN Append(SubFrom(a, b, i - 1, 1), d + 256)
           ELSE Append(SubFrom(a, b, i - 1, 0), d)

Sub(a, b) == SubFrom(a, b, Len(a), 0)

\* floor(a / 2) (BigInt `/ 2n`), same width
RECURSIVE HalfFrom(_, _, _)
HalfFrom(a, i, carry) ==
  IF i > Len(a) THEN <<>>
  ELSE <<(carry * 256 + a[i]) \div 2>> \o HalfFrom(a, i + 1, a[i] % 2)

Half(a) == HalfFrom(a, 1, 0)

\* a + 1 for a sequence that is not all 0xFF
RECURSIVE IncFrom(_, _)
IncFrom(a, i) ==
  IF a[i] < 255 THEN [a EXCEPT ![i] = a[i] + 1]
  ELSE IncFrom([a EXCEPT ![i] = 0], i - 1)

Inc(a) == IncFrom(a, Len(a))

\* secp256k1 group order
\* 0xFFFFFFFFFFFFFFFFFFFFFFFFFFFFFFFEBAAEDCE6AF48A03BBFD25E8CD0364141
SECP256K1_N ==
  << 255, 255, 255, 255, 255, 255, 255, 255,
     255, 255, 255, 255, 255, 255, 255, 254,
     186, 174, 220, 230, 175,  72, 160,  59,
     191, 210,  94, 140, 208,  54,  65,  65 >>

\* SECP256K1_N / 2n
HalfN == Half(SECP256K1_N)


(***************************************************************************)
(* JavaScript Buffer access.  Offsets are 0-based as in the code.         *)
(***************************************************************************)
Undefined == 0 - 1   \* buf[i] past the end of a Buffer
NaN == 0 - 2         \* a number computed from undefined

\* buf[i]
At(buf, i) == IF i >= 0 /\ i < Len(buf) THEN buf[i + 1] ELSE Undefined

Clamp(i, n) == IF i < 0 THEN 0 ELSE IF i > n THEN n ELSE i

\* buf.slice(start, end): both ends clamped, NaN taken as 0
Slice(buf, start, end) ==
  LET a == Clamp(start, Len(buf))
      b == Clamp(end, Len(buf))
  IN  IF b <= a THEN <<>> ELSE SubSeq(buf, a + 1, b)

\* mutant: the bytes are copied to the start of the 32-byte buffer
CopyRightAligned_LeftAligned(x) ==
  IF Len(x) >= 32 THEN SubSeq(x, 1, 32) ELSE x \o Zeros(32 - Len(x))

\* const p = Buffer.alloc(32); x.copy(p, Math.max(0, 32 - x.length))
CopyRightAligned(x) ==
  IF Len(x) >= 32 THEN SubSeq(x, 1, 32) ELSE Zeros(32 - Len(x)) \o x

(***************************************************************************)
(* The signer's DER encoding of an ECDSA signature (the KMS Sign           *)
(* response): SEQUENCE { INTEGER r, INTEGER s }, each INTEGER minimal with *)
(* a leading 0x00 when the top bit of the magnitude is set.                *)
(***************************************************************************)
RECURSIVE StripZeros(_)
StripZeros(x) ==
  IF Len(x) > 1 /\ x[1] = 0 THEN StripZeros(Tail(x)) ELSE x

DerInteger(x32) ==
  LET m == StripZeros(x32)
      body == IF m[1] >= 128 THEN <<0>> \o m ELSE m
  IN  <<2, Len(body)>> \o body

DerSignature(r32, s32) ==
  LET body == DerInteger(r32) \o DerInteger(s32)
  IN  <<48, Len(body)>> \o body

(***************************************************************************)
(* Parsing the DER signature into r and s, signTransaction lines 329-364   *)
(* (same code at 777-812).                                                 *)
(***************************************************************************)
\* mutant: the tag at s's position is not looked at
ParseDerSignature_NoTagCheckForS(derSignature) ==
  IF At(derSignature, 0) # 48
  THEN [ok |-> FALSE, error |-> "Invalid DER signature: expected SEQUENCE (0x30)",
        r |-> <<>>, s |-> <<>>]
  ELSE
  LET offset1 == 2 IN
  IF At(derSignature, offset1) # 2
  THEN [ok |-> FALSE, error |-> "Invalid DER signature: expected INTEGER (0x02) for r",
        r |-> <<>>, s |-> <<>>]
  ELSE
  LET rLength == At(derSignature, offset1 + 1)
      rStart0 == offset1 + 2
      rStart  == IF At(derSignature, rStart0) = 0 /\ rLength > 1
                 THEN rStart0 + 1 ELSE rStart0
      rEnd    == IF rLength = Undefined THEN NaN ELSE offset1 + 2 + rLength
      r       == Slice(derSignature, rStart, rEnd)
      offset2 == rEnd
      sLength == At(derSignature, offset2 + 1)
      sStart0 == offset2 + 2
      sStart  == IF At(derSignature, sStart0) = 0 /\ sLength > 1
                 THEN sStart0 + 1 ELSE sStart0
      sEnd    == IF sLength = Undefined THEN NaN ELSE offset2 + 2 + sLength
      s       == Slice(derSignature, sStart, sEnd)
  IN  [ok |-> TRUE, error |-> "", r |-> r, s |-> s]

ParseDerSignature(derSignature) ==
  IF At(derSignature, 0) # 48
  THEN [ok |-> FALSE, error |-> "Invalid DER signature: expected SEQUENCE (0x30)",
        r |-> <<>>, s |-> <<>>]
  ELSE
  LET offset1 == 2 IN
  IF At(derSignature, offset1) # 2
  THEN [ok |-> FALSE, error |-> "Invalid DER signature: expected INTEGER (0x02) for r",
        r |-> <<>>, s |-> <<>>]
  ELSE
  LET rLength == At(derSignature, offset1 + 1)
      rStart0 == offset1 + 2
      rStart  == IF At(derSignature, rStart0) = 0 /\ rLength > 1
                 THEN rStart0 + 1 ELSE rStart0
      rEnd    == IF rLength = Undefined THEN NaN ELSE offset1 + 2 + rLength
      r       == Slice(derSignature, rStart, rEnd)
      offset2 == rEnd
  IN
  IF (offset2 # NaN /\ offset2 >= Len(derSignature)) \/ At(derSignature, offset2) # 2
  THEN [ok |-> FALSE, error |-> "Invalid DER signature: expected INTEGER (0x02) for s",
        r |-> <<>>, s |-> <<>>]
  ELSE
  LET sLength == At(derSignature, offset2 + 1)
      sStart0 == offset2 + 2
      sStart  == IF At(derSignature, sStart0) = 0 /\ sLength > 1
                 THEN sStart0 + 1 ELSE sStart0
      sEnd    == IF sLength = Undefined THEN NaN ELSE offset2 + 2 + sLength
      s       == Slice(derSignature, sStart, sEnd)
  IN  [ok |-> TRUE, error |-> "", r |-> r, s |-> s]

(***************************************************************************)
(* Low-s canonicalisation, signTransaction lines 376-390 (and 824-834).    *)
(***************************************************************************)
\* sBigInt > SECP256K1_N / 2n
IsHighS(sPadded) == Greater(sPadded, HalfN)

\* Buffer.from((SECP256K1_N - sBigInt).toString(16).padStart(64, '0'), 'hex')
FlipS(sPadded) == Sub(SECP256K1_N, sPadded)

\* mutant: s is embedded as the signer returned it
CanonicalS_NeverFlips(sPadded) == sPadded

CanonicalS(sPadded) == IF IsHighS(sPadded) THEN FlipS(sPadded) ELSE sPadded

(***************************************************************************)
(* Configuration and defaults.                                             *)
(***************************************************************************)
\* the chain ids of CHAIN_RPC_URLS
KnownChainIds ==
  {1, 137, 56, 43114, 250, 42161, 10, 8453, 5, 11155111, 80001, 97, 43113,
   421611, 84532}

\* getDefaultRpcUrl(chainId): `chainId ? CHAIN_RPC_URLS[chainId] : undefined`
getDefaultRpcUrl(chainId) ==
  IF IsSome(chainId) /\ Get(chainId) # 0 /\ Get(chainId) \in KnownChainIds
  THEN Some("default-rpc") ELSE None

\* transaction.rpcUrl || getDefaultRpcUrl(transaction.chainId)
ResolveRpcUrl(t) ==
  IF IsSome(t.rpcUrl) THEN t.rpcUrl ELSE getDefaultRpcUrl(t.chainId)

\* transaction.rpcUrl || transaction.chainId
HasRpcOrChain(t) ==
  IsSome(t.rpcUrl) \/ (IsSome(t.chainId) /\ Get(t.chainId) # 0)

DefaultGasLimit == 21000      \* '21000' / '0x5208'
OneGwei == 1000000000         \* Web3.utils.toWei('1', 'gwei')

\* Web3.utils.toWei(v, 'ether') / ethers.parseEther(v): v * 10^18, kept as
\* mantissa and decimal exponent
ToWei(v) == [mantissa |-> v, exp10 |-> 18]

\* Buffer.from(hexDigits, 'hex'): two digits per byte, a trailing odd digit
\* is dropped
RECURSIVE HexToBytes(_)
HexToBytes(d) ==
  IF Len(d) < 2 THEN <<>>
  ELSE <<d[1] * 16 + d[2]>> \o HexToBytes(SubSeq(d, 3, Len(d)))

(***************************************************************************)
(* Inputs of a signTransaction call.                                       *)
(***************************************************************************)
\* to / value / data of the request.  `to` is [prefixed, valid]; data is
\* [prefixed, digits]; value is a decimal ether amount.
TxBodies ==
  { [to |-> [prefixed |-> TRUE, valid |-> TRUE], value |-> None, data |-> None],
    [to |-> [prefixed |-> FALSE, valid |-> TRUE], value |-> Some(1),
     data |-> Some([prefixed |-> TRUE, digits |-> <<10, 11, 12, 13>>])],
    [to |-> [prefixed |-> TRUE, valid |-> TRUE], value |-> Some(1),
     data |-> Some([prefixed |-> FALSE, digits |-> <<10, 11>>])],
    [to |-> [prefixed |-> TRUE, valid |-> TRUE], value |-> None,
     data |-> Some([prefixed |-> TRUE, digits |-> <<10, 11, 12>>])],
    [to |-> [prefixed |-> TRUE, valid |-> FALSE], value |-> None, data |-> None] }

Opt(S) == {None} \cup {Some(v) : v \in S}

Transactions ==
  { [to |-> b.to, value |-> b.value, data |-> b.data, nonce |-> n,
     gasLimit |-> gl, gasPrice |-> gp, maxFeePerGas |-> mf,
     maxPriorityFeePerGas |-> mp, chainId |-> c, rpcUrl |-> u] :
      b \in TxBodies, n \in Opt(0..MaxNonce), gl \in Opt({50000}),
      gp \in Opt({7}), mf \in Opt({9}), mp \in Opt({2}),
      c \in Opt({1, 31337}), u \in Opt({"rpc"}) }

\* r and s of the signatures the signer may return: valid scalars in [1, N-1]
One32 == [i \in 1..32 |-> IF i = 32 THEN 1 ELSE 0]
RValues == { [i \in 1..32 |-> IF i = 1 THEN 200 ELSE 3] }
SValues == { One32, HalfN, Inc(HalfN),
             Sub(SECP256K1_N, One32) }

VARIABLES
  op,            \* the running call: "none", "signTransaction", "signMessage"
  rev,           \* "web3" (signing.ts 1-500) or "ethers" (signing.ts 502-883)
  pc,            \* position in the call
  transaction,   \* the caller's EthereumTransaction
  tx,            \* the draft `tx` object
  useEIP1559,    \* line 217
  unsignedTx,    \* the unsigned transaction whose hash is signed
  signRequests,  \* number of SignCommands sent to KMS by this call
  signCommand,   \* the SignCommand sent (None before)
  derSignature,  \* signResponse.Signature
  signResponse,  \* the signer's answer: kind, the scalars r and s it signed
                 \* with, and bit, the recovery id under which (r, s)
                 \* recovers the signer's public key
  rPadded, sPadded, sCanonical, sWasFlipped,
  tried,         \* recovery ids tried, in order
  signedTx,      \* the transaction returned (None until returned)
  error,         \* message of the Error thrown ("" if none)
  warnings       \* number of console.warn calls

VARIABLES
  options,          \* submitTransaction: the caller's SubmitOptions
  providerUrl,      \* submitTransaction: the endpoint chosen
  broadcasts,       \* number of times the signed transaction was handed to
                    \* the node by this call
  nodeEvents,       \* what the node has answered so far, in order
  submitResult,     \* the SubmitResult returned (None until returned)
  privateKeyHex,    \* importKMSKey: the caller's key string (character codes)
  privateKeyBytes,  \* the Buffer given to privateKeyToPKCS8
  pkcs8KeyMaterial, \* the PKCS#8 encoding handed to the import
  kmsCommands,      \* KMS commands sent by setup calls, in order
  createdAlias,     \* the alias created for the key (None if none)
  importResult,     \* the ImportKeyResult returned (None until returned)
  createResult,     \* the CreateKeyResult returned (None until returned)
  kmsAliasTarget,   \* the key that alias/<aliasName> targets in KMS, as far
                    \* as the answer to CreateAlias tells (None: not known)
  publicKeyBytes,   \* getPublicKey: Buffer.from(response.PublicKey)
  publicKey,        \* getPublicKey: the bytes returned as hex
  address,          \* getEthereumAddress: the address derived
  argv,             \* the command lines: process.argv.slice(2)
  env,              \* process.env, as far as the programs read it
  cliOptions,       \* sign CLI: what parseArguments returned (None before)
  cliCalls          \* the library calls a command line has made, in order

submitVars == <<options, providerUrl, broadcasts, nodeEvents, submitResult>>
keyVars == <<privateKeyHex, privateKeyBytes, pkcs8KeyMaterial, kmsCommands,
             createdAlias, importResult, createResult, kmsAliasTarget>>
pubVars == <<publicKeyBytes, publicKey, address>>
cliVars == <<argv, env, cliOptions, cliCalls>>
sideVars == <<submitVars, keyVars, pubVars, cliVars>>

inputVars == <<op, rev, transaction>>
draftVars == <<tx, useEIP1559, unsignedTx>>
sigVars == <<derSignature, signResponse, rPadded, sPadded, sCanonical, sWasFlipped,
             tried, signedTx>>
vars == <<op, rev, pc, transaction, tx, useEIP1559, unsignedTx, signRequests,
          signCommand,
          derSignature, signResponse, rPadded, sPadded, sCanonical, sWasFlipped,
          tried, signedTx, error, warnings, sideVars>>

NoResponse == [kind |-> "none", r |-> <<>>, s |-> <<>>, bit |-> 0, der |-> <<>>]

NoTx ==
  [to |-> None, chainId |-> None, value |-> None, data |-> None, nonce |-> None,
   gasLimit |-> None, gasPrice |-> None, maxFeePerGas |-> None,
   maxPriorityFeePerGas |-> None]

Init ==
  /\ op = "none"
  /\ rev = "web3"
  /\ pc = "idle"
  /\ transaction = None
  /\ tx = NoTx
  /\ useEIP1559 = FALSE
  /\ unsignedTx = None
  /\ signRequests = 0
  /\ signCommand = None
  /\ derSignature = <<>>
  /\ signResponse = NoResponse
  /\ rPadded = <<>>
  /\ sPadded = <<>>
  /\ sCanonical = <<>>
  /\ sWasFlipped = FALSE
  /\ tried = <<>>
  /\ signedTx = None
  /\ error = ""
  /\ warnings = 0
  /\ options = None
  /\ providerUrl = None
  /\ broadcasts = 0
  /\ nodeEvents = <<>>
  /\ submitResult = None
  /\ privateKeyHex = <<>>
  /\ privateKeyBytes = <<>>
  /\ pkcs8KeyMaterial = <<>>
  /\ kmsCommands = <<>>
  /\ createdAlias = None
  /\ importResult = None
  /\ createResult = None
  /\ kmsAliasTarget = None
  /\ publicKeyBytes = <<>>
  /\ publicKey = <<>>
  /\ address = None
  /\ argv = <<>>
  /\ env = [KMS_KEY_ID |-> None, CHAIN_ID |-> None, RPC_URL |-> None]
  /\ cliOptions = None
  /\ cliCalls = <<>>

\* throw new Error(msg)
Throw(msg) == pc' = "failed" /\ error' = msg

(***************************************************************************)
(* signTransaction, web3 revision (signing.ts 165-464).                    *)
(***************************************************************************)
\* lines 170-184: build `tx` from the caller's fields
Web3Begin(t) ==
  /\ pc = "idle"
  /\ op' = "signTransaction"
  /\ rev' = "web3"
  /\ transaction' = t
  /\ tx' = [NoTx EXCEPT
       !.to = Some(t.to),
       !.chainId = t.chainId,
       !.value = IF IsSome(t.value) THEN Some(ToWei(Get(t.value))) ELSE None,
       \* data.startsWith('0x') ? data : '0x' + data
       !.data = IF IsSome(t.data)
                THEN Some([prefixed |-> TRUE, digits |-> Get(t.data).digits])
                ELSE None]
  /\ pc' = "nonce"
  /\ UNCHANGED <<useEIP1559, unsignedTx, signRequests, signCommand, sigVars, error, warnings, sideVars>>

\* fetchNonceIfNeeded, lines 22-48.  net is the outcome of the awaits at
\* lines 38-39: None when one of them throws, else the pending transaction
\* count.
Web3FetchNonce(net) ==
  /\ pc = "nonce" /\ rev = "web3"
  /\ IF IsSome(transaction.nonce)
     THEN /\ tx' = [tx EXCEPT !.nonce = transaction.nonce]
          /\ net = None
          /\ UNCHANGED warnings
     ELSE IF HasRpcOrChain(transaction) /\ IsSome(ResolveRpcUrl(transaction))
     THEN IF net = None
          THEN /\ warnings' = warnings + 1
               /\ tx' = [tx EXCEPT !.nonce = Some(0)]
          ELSE /\ tx' = [tx EXCEPT !.nonce = net]
               /\ UNCHANGED warnings
     ELSE /\ tx' = [tx EXCEPT !.nonce = Some(0)]
          /\ net = None
          /\ UNCHANGED warnings
  /\ pc' = "gasLimit"
  /\ UNCHANGED <<inputVars, useEIP1559, unsignedTx, signRequests, signCommand, sigVars, error, sideVars>>


\* lines 189-212.  net is the outcome of web3.eth.estimateGas: None when
\* it throws, else the estimate.
Web3GasLimit(net) ==
  /\ pc = "gasLimit" /\ rev = "web3"
  /\ IF IsSome(transaction.gasLimit)
     THEN /\ tx' = [tx EXCEPT !.gasLimit = transaction.gasLimit]
          /\ net = None
          /\ UNCHANGED warnings
     ELSE IF HasRpcOrChain(transaction) /\ IsSome(ResolveRpcUrl(transaction))
     THEN IF net = None
          THEN /\ warnings' = warnings + 1
               /\ tx' = [tx EXCEPT !.gasLimit = Some(DefaultGasLimit)]
          ELSE /\ tx' = [tx EXCEPT !.gasLimit = net]
               /\ UNCHANGED warnings
     ELSE /\ tx' = [tx EXCEPT !.gasLimit = Some(DefaultGasLimit)]
          /\ net = None
          /\ UNCHANGED warnings
  /\ pc' = "gasFees"
  /\ UNCHANGED <<inputVars, useEIP1559, unsignedTx, signRequests, signCommand, sigVars, error, sideVars>>

\* line 217: !!(transaction.maxFeePerGas && transaction.maxPriorityFeePerGas)
UseEIP1559(t) == IsSome(t.maxFeePerGas) /\ IsSome(t.maxPriorityFeePerGas)

\* lines 219-245: the fee fields of `tx`; net is the outcome of
\* web3.eth.getGasPrice (None when it throws)
Web3FeeFields(t, d, net) ==
  IF UseEIP1559(t)
  THEN [d EXCEPT !.maxFeePerGas = t.maxFeePerGas,
                 !.maxPriorityFeePerGas = t.maxPriorityFeePerGas]
  ELSE IF IsSome(t.gasPrice) THEN [d EXCEPT !.gasPrice = t.gasPrice]
  ELSE IF HasRpcOrChain(t) /\ IsSome(ResolveRpcUrl(t)) /\ IsSome(net)
  THEN [d EXCEPT !.gasPrice = net]
  ELSE [d EXCEPT !.gasPrice = Some(OneGwei)]

\* line 272 / 401: useEIP1559 && tx.maxFeePerGas && tx.maxPriorityFeePerGas
Web3IsTyped(u, d) == u /\ IsSome(d.maxFeePerGas) /\ IsSome(d.maxPriorityFeePerGas)

\* lines 248, 262-267: the common fields of the txData objects
Web3CommonFields(d) ==
  [ chainId  |-> IF IsSome(d.chainId) /\ Get(d.chainId) # 0 THEN Get(d.chainId) ELSE 1,
    to       |-> [prefixed |-> TRUE, valid |-> Get(d.to).valid],
    value    |-> IF IsSome(d.value) THEN Get(d.value) ELSE ToWei(0),
    nonce    |-> IF IsSome(d.nonce) THEN Get(d.nonce) ELSE 0,
    gasLimit |-> IF IsSome(d.gasLimit) THEN Get(d.gasLimit) ELSE DefaultGasLimit,
    data     |-> IF IsSome(d.data) THEN HexToBytes(Get(d.data).digits) ELSE <<>> ]

\* lines 272-299: the txData of the unsigned transaction
Web3UnsignedTxData(u, d) ==
  LET c == Web3CommonFields(d) IN
  IF Web3IsTyped(u, d)
  THEN [ type |-> "eip1559", nonce |-> c.nonce, gasLimit |-> c.gasLimit,
         to |-> c.to, value |-> c.value, data |-> c.data,
         gasPrice |-> None,
         maxFeePerGas |-> d.maxFeePerGas,
         maxPriorityFeePerGas |-> d.maxPriorityFeePerGas,
         chainId |-> c.chainId ]
  ELSE [ type |-> "legacy", nonce |-> c.nonce, gasLimit |-> c.gasLimit,
         to |-> c.to, value |-> c.value, data |-> c.data,
         gasPrice |-> IF IsSome(d.gasPrice) THEN d.gasPrice ELSE Some(0),
         maxFeePerGas |-> None,
         maxPriorityFeePerGas |-> None,
         chainId |-> c.chainId ]

\* lines 214-309: fee fields, the unsigned transaction and its hash.
\* fromTxData throws on a malformed `to`.
Web3GasFees(net) ==
  /\ pc = "gasFees" /\ rev = "web3"
  /\ LET consults == /\ ~UseEIP1559(transaction)
                     /\ ~IsSome(transaction.gasPrice)
                     /\ HasRpcOrChain(transaction)
                     /\ IsSome(ResolveRpcUrl(transaction))
         d == Web3FeeFields(transaction, tx, net)
         u == UseEIP1559(transaction)
     IN  /\ consults \/ net = None
         /\ warnings' = IF consults /\ net = None THEN warnings + 1 ELSE warnings
         /\ useEIP1559' = u
         /\ tx' = d
         /\ IF Get(d.to).valid
            THEN /\ unsignedTx' = Some(Web3UnsignedTxData(u, d))
                 /\ pc' = "sign"
                 /\ UNCHANGED error
            ELSE /\ Throw("invalid address")
                 /\ UNCHANGED unsignedTx
  /\ UNCHANGED <<inputVars, signRequests, signCommand, sigVars, sideVars>>

\* the 32-byte Keccak-256 hash of a serialization or of a message
Keccak256(preimage) == [keccak256 |-> preimage, length |-> 32]

\* lines 300-316 (754-765, 474-490): the hash to sign and the SignCommand.
\* The web3 revision throws when the hash is not 32 bytes long.
MessageHash ==
  IF op = "signMessage" THEN Keccak256("\\x19Ethereum Signed Message:")
  ELSE Keccak256(Get(unsignedTx))

SignCommandOf(messageHash) ==
  [Message |-> messageHash, MessageType |-> "DIGEST",
   SigningAlgorithm |-> "ECDSA_SHA_256"]

\* mutant: the hash is sent as a RAW message, which the signer hashes again
SendSignCommand_Raw ==
  /\ pc = "sign"
  /\ signRequests' = signRequests + 1
  /\ signCommand' = Some([SignCommandOf(MessageHash) EXCEPT !.MessageType = "RAW"])
  /\ pc' = "awaitSign"
  /\ UNCHANGED <<inputVars, draftVars, sigVars, error, warnings, sideVars>>

\* mutant: the sign request is sent again while the answer is awaited
SendSignCommand_Retry ==
  /\ pc \in {"sign", "awaitSign"}
  /\ signRequests' = signRequests + 1
  /\ signCommand' = Some(SignCommandOf(MessageHash))
  /\ pc' = "awaitSign"
  /\ UNCHANGED <<inputVars, draftVars, sigVars, error, warnings, sideVars>>

\* lines 311-319 (767, 492, 874): kmsClient.send(signCommand)
SendSignCommand ==
  /\ pc = "sign"
  /\ IF rev = "web3" /\ op = "signTransaction" /\ MessageHash.length # 32
     THEN /\ Throw("Invalid message hash length")
          /\ UNCHANGED <<signRequests, signCommand>>
     ELSE /\ signRequests' = signRequests + 1
          /\ signCommand' = Some(SignCommandOf(MessageHash))
          /\ pc' = "awaitSign"
          /\ UNCHANGED error
  /\ UNCHANGED <<inputVars, draftVars, sigVars, warnings, sideVars>>

(***************************************************************************)
(* The signer's answers to a SignCommand.                                  *)
(***************************************************************************)
\* kind "signature": der is the Signature field; r, s and bit tell the
\* scalars it encodes and the recovery id (empty when der is not the
\* encoding of two scalars)
SignResponses ==
  { [kind |-> "throw", r |-> <<>>, s |-> <<>>, bit |-> 0, der |-> <<>>],
    [kind |-> "absent", r |-> <<>>, s |-> <<>>, bit |-> 0, der |-> <<>>] }
  \cup { [kind |-> "signature", r |-> r, s |-> s, bit |-> b,
           der |-> DerSignature(r, s)] :
           r \in RValues, s \in SValues, b \in {0, 1} }

\* Buffer.from(signResponse.Signature)
SignatureBytes(resp) == resp.der

\* Signature fields that are not, or not quite, the DER encoding of two
\* scalars.  An element is a tag, a declared length and content bytes.
DerElements ==
  { [tag |-> 2, len |-> 32, body |-> HalfN],
    [tag |-> 2, len |-> 33, body |-> <<0>> \o Sub(SECP256K1_N, One32)],
    [tag |-> 2, len |-> 1, body |-> <<1>>],
    [tag |-> 2, len |-> 1, body |-> <<0>>],
    [tag |-> 2, len |-> 2, body |-> <<0, 128>>],
    [tag |-> 2, len |-> 0, body |-> <<>>],
    [tag |-> 3, len |-> 1, body |-> <<1>>] }

DerElementBytes(e) == <<e.tag, e.len>> \o e.body

\* outer tag, the two elements, and the number of bytes missing at the end
DerEncodings ==
  { LET body == DerElementBytes(re) \o DerElementBytes(se)
        whole == <<outerTag, Len(body)>> \o body
    IN  SubSeq(whole, 1, Len(whole) - cut) :
      outerTag \in {48, 49}, re \in DerElements, se \in DerElements,
      cut \in {0, 1, 3} }

DerResponses ==
  { [kind |-> "signature", r |-> <<>>, s |-> <<>>, bit |-> 0, der |-> d] :
      d \in DerEncodings }

(***************************************************************************)
(* ECDSA public-key recovery.  A signature (r, s) made by the key recovers *)
(* the key under exactly one recovery id in {0, 1} (the parity of the      *)
(* nonce point); (r, N - s) recovers it under the other one.               *)
(***************************************************************************)
MatchingRecoveryId(bit, sP) == IF IsHighS(sP) THEN 1 - bit ELSE bit

(***************************************************************************)
(* Recovery-id search, lines 396-457.                                      *)
(***************************************************************************)
\* mutant: the legacy search always starts at id 0
recoveryIdStart_AlwaysZero(flipped) == 0

recoveryIdStart(flipped) == IF flipped THEN 2 ELSE 0
recoveryIdEnd(flipped) == IF flipped THEN 4 ELSE 2

\* line 435
LegacyV(chainId, recoveryId) == chainId * 2 + 35 + recoveryId

\* Transaction.fromTxData / FeeMarketEIP1559Transaction.fromTxData with a
\* signature (lines 419, 449): the constructor checks the signature fields
\* against the chain (EIP-155: v is chainId*2+35 or chainId*2+36; typed:
\* yParity is 0 or 1) and throws otherwise.  It is given no signer to
\* compare with.
FromTxDataAccepts(typed, chainId, id) ==
  IF typed THEN id \in {0, 1}
  ELSE LegacyV(chainId, id) \in {chainId * 2 + 35, chainId * 2 + 36}

\* the for loops at 403-426 and 433-456: candidates tried, last one first
\* accepted or all rejected
\* mutant: the loop keeps going after a candidate was accepted
SearchLoop_NoEarlyExit(id, end, typed, chainId) ==
  [i \in 1..(end - id) |-> id + i - 1]

RECURSIVE SearchLoop(_, _, _, _)
SearchLoop(id, end, typed, chainId) ==
  IF id >= end THEN <<>>
  ELSE IF FromTxDataAccepts(typed, chainId, id) THEN <<id>>
  ELSE <<id>> \o SearchLoop(id + 1, end, typed, chainId)

Web3Search(typed, flipped, chainId) ==
  IF typed THEN SearchLoop(0, 2, TRUE, chainId)
  ELSE SearchLoop(recoveryIdStart(flipped), recoveryIdEnd(flipped), FALSE, chainId)

\* mutant: the sealing step always builds the legacy txData
Web3SignedTxData_AlwaysLegacy(u, d, r, s, id) ==
  LET c == Web3CommonFields(d) IN
  [ type |-> "legacy", nonce |-> c.nonce, gasLimit |-> c.gasLimit,
    to |-> c.to, value |-> c.value, data |-> c.data,
    gasPrice |-> IF IsSome(d.gasPrice) THEN d.gasPrice ELSE Some(0),
    maxFeePerGas |-> None,
    maxPriorityFeePerGas |-> None,
    chainId |-> c.chainId, r |-> r, s |-> s,
    yParity |-> None, v |-> Some(LegacyV(c.chainId, id)) ]

\* mutant: the sealing step uses the default gas limit instead of the
\* draft's
Web3SignedTxData_DefaultGas(u, d, r, s, id) ==
  LET c == Web3CommonFields(d) IN
  [ type |-> IF Web3IsTyped(u, d) THEN "eip1559" ELSE "legacy",
    nonce |-> c.nonce, gasLimit |-> DefaultGasLimit,
    to |-> c.to, value |-> c.value, data |-> c.data,
    gasPrice |-> IF Web3IsTyped(u, d) THEN None
                 ELSE IF IsSome(d.gasPrice) THEN d.gasPrice ELSE Some(0),
    maxFeePerGas |-> IF Web3IsTyped(u, d) THEN d.maxFeePerGas ELSE None,
    maxPriorityFeePerGas |-> IF Web3IsTyped(u, d) THEN d.maxPriorityFeePerGas ELSE None,
    chainId |-> c.chainId, r |-> r, s |-> s,
    yParity |-> IF Web3IsTyped(u, d) THEN Some(id) ELSE None,
    v |-> IF Web3IsTyped(u, d) THEN None ELSE Some(LegacyV(c.chainId, id)) ]

\* lines 405-417 and 436-447: the txData of the signed transaction
Web3SignedTxData(u, d, r, s, id) ==
  LET c == Web3CommonFields(d) IN
  IF Web3IsTyped(u, d)
  THEN [ type |-> "eip1559", nonce |-> c.nonce, gasLimit |-> c.gasLimit,
         to |-> c.to, value |-> c.value, data |-> c.data,
         gasPrice |-> None,
         maxFeePerGas |-> d.maxFeePerGas,
         maxPriorityFeePerGas |-> d.maxPriorityFeePerGas,
         chainId |-> c.chainId, r |-> r, s |-> s,
         yParity |-> Some(id), v |-> None ]
  ELSE [ type |-> "legacy", nonce |-> c.nonce, gasLimit |-> c.gasLimit,
         to |-> c.to, value |-> c.value, data |-> c.data,
         gasPrice |-> IF IsSome(d.gasPrice) THEN d.gasPrice ELSE Some(0),
         maxFeePerGas |-> None,
         maxPriorityFeePerGas |-> None,
         chainId |-> c.chainId, r |-> r, s |-> s,
         yParity |-> None, v |-> Some(LegacyV(c.chainId, id)) ]

\* lines 319-464: the sign response, DER parsing, canonical s, the
\* recovery-id search and the result
Web3ReceiveSignature(resp) ==
  /\ pc = "awaitSign" /\ op = "signTransaction" /\ rev = "web3"
  /\ IF resp.kind = "throw"
     THEN /\ Throw("KMS request failed")
          /\ UNCHANGED sigVars
     ELSE IF resp.kind = "absent"
     THEN /\ Throw("Failed to sign transaction with KMS")
          /\ UNCHANGED sigVars
     ELSE
       LET der == SignatureBytes(resp)
           parsed == ParseDerSignature(der)
       IN
       IF ~parsed.ok
       THEN /\ Throw(parsed.error)
            /\ derSignature' = der
            /\ signResponse' = resp
            /\ UNCHANGED <<rPadded, sPadded, sCanonical, sWasFlipped, tried, signedTx>>
       ELSE
         LET rP == CopyRightAligned(parsed.r)
             sP == CopyRightAligned(parsed.s)
             sC == CanonicalS(sP)
             flipped == IsHighS(sP)
             typed == Web3IsTyped(useEIP1559, tx)
             chainId == Web3CommonFields(tx).chainId
             ids == Web3Search(typed, flipped, chainId)
             found == ids # <<>> /\ FromTxDataAccepts(typed, chainId, ids[Len(ids)])
         IN
         /\ derSignature' = der
         /\ signResponse' = resp
         /\ rPadded' = rP
         /\ sPadded' = sP
         /\ sCanonical' = sC
         /\ sWasFlipped' = flipped
         /\ tried' = ids
         /\ IF found
            THEN /\ signedTx' = Some(Web3SignedTxData(useEIP1559, tx, rP, sC, ids[Len(ids)]))
                 /\ pc' = "returned"
                 /\ UNCHANGED error
            ELSE /\ Throw("Could not construct signed transaction")
                 /\ UNCHANGED signedTx
  /\ UNCHANGED <<inputVars, draftVars, signRequests, signCommand, warnings, sideVars>>

(***************************************************************************)
(* signTransaction, ethers revision (signing.ts 652-850).                  *)
(***************************************************************************)
\* lines 657-675: the signer's address is fetched first (addressOk is the
\* outcome of getEthereumAddress), then `tx` is built from the caller's
\* fields
EthersBegin(t, addressOk) ==
  /\ pc = "idle"
  /\ op' = "signTransaction"
  /\ rev' = "ethers"
  /\ transaction' = t
  /\ IF addressOk
     THEN /\ tx' = [NoTx EXCEPT
               !.to = Some(t.to),
               !.chainId = t.chainId,
               !.value = IF IsSome(t.value) THEN Some(ToWei(Get(t.value))) ELSE None,
               !.data = t.data,
               !.nonce = t.nonce]
          /\ pc' = "gas"
          /\ UNCHANGED error
     ELSE /\ Throw("Failed to get public key")
          /\ UNCHANGED tx
  /\ UNCHANGED <<useEIP1559, unsignedTx, signRequests, signCommand, sigVars, warnings, sideVars>>

\* provider.getFeeData() answers
FeeDatas ==
  { [gasPrice |-> Some(3), maxFeePerGas |-> Some(8), maxPriorityFeePerGas |-> Some(1)],
    [gasPrice |-> Some(3), maxFeePerGas |-> None, maxPriorityFeePerGas |-> None],
    [gasPrice |-> None, maxFeePerGas |-> None, maxPriorityFeePerGas |-> None] }

\* lines 697-715
EthersApplyFeeData(t, d, feeData) ==
  IF IsSome(feeData.maxFeePerGas) /\ IsSome(feeData.maxPriorityFeePerGas)
  THEN [d EXCEPT !.maxFeePerGas = feeData.maxFeePerGas,
                 !.maxPriorityFeePerGas = feeData.maxPriorityFeePerGas]
  ELSE IF IsSome(feeData.gasPrice) THEN [d EXCEPT !.gasPrice = feeData.gasPrice]
  ELSE IF IsSome(t.gasPrice) THEN [d EXCEPT !.gasPrice = t.gasPrice]
  ELSE [d EXCEPT !.gasPrice = Some(OneGwei)]

\* lines 720-725 and 729-734: defaults for the values the caller left out
EthersDefaults(t, d) ==
  [d EXCEPT !.gasLimit = IF IsSome(t.gasLimit) THEN d.gasLimit ELSE Some(DefaultGasLimit),
            !.gasPrice = IF IsSome(t.gasPrice) THEN d.gasPrice ELSE Some(OneGwei)]

\* lines 677-744.  net is the outcome of the network calls in the try
\* block: None when estimateGas or getFeeData throws, else the fee data
\* (the gas estimate is 30000).
EthersGasFields(t, d, net) ==
  IF ~IsSome(t.gasLimit) \/ ~IsSome(t.gasPrice)
  THEN IF HasRpcOrChain(t)
       THEN IF IsSome(ResolveRpcUrl(t))
            THEN IF IsSome(net)
                 THEN EthersApplyFeeData(t,
                        [d EXCEPT !.gasLimit = IF IsSome(t.gasLimit) THEN t.gasLimit
                                               ELSE Some(30000)],
                        Get(net))
                 ELSE EthersDefaults(t, [d EXCEPT !.gasLimit = t.gasLimit])
            ELSE d
       ELSE EthersDefaults(t, d)
  ELSE [d EXCEPT !.gasLimit = t.gasLimit, !.gasPrice = t.gasPrice]

\* lines 746-752
EthersTypedFees(t, d) ==
  [d EXCEPT !.maxFeePerGas = IF IsSome(t.maxFeePerGas) THEN t.maxFeePerGas
                             ELSE d.maxFeePerGas,
            !.maxPriorityFeePerGas = IF IsSome(t.maxPriorityFeePerGas)
                                     THEN t.maxPriorityFeePerGas
                                     ELSE d.maxPriorityFeePerGas]

\* ethers.Transaction.from(tx) rejects a malformed address and data that
\* is not 0x-prefixed hex of even length
EthersFieldsValid(d) ==
  /\ Get(d.to).valid
  /\ IsSome(d.data) => (Get(d.data).prefixed /\ Len(Get(d.data).digits) % 2 = 0)

\* ethers.Transaction.from(tx), lines 755 and 844: the Transaction object
\* holds every field `tx` holds; absent numbers read as 0.  A transaction
\* with a typed-fee field is serialized as the typed envelope.
EthersTransactionFrom(d) ==
  [ type |-> IF IsSome(d.maxFeePerGas) \/ IsSome(d.maxPriorityFeePerGas)
             THEN "eip1559" ELSE "legacy",
    nonce |-> IF IsSome(d.nonce) THEN Get(d.nonce) ELSE 0,
    gasLimit |-> IF IsSome(d.gasLimit) THEN Get(d.gasLimit) ELSE 0,
    to |-> [prefixed |-> TRUE, valid |-> Get(d.to).valid],
    value |-> IF IsSome(d.value) THEN Get(d.value) ELSE ToWei(0),
    data |-> IF IsSome(d.data) THEN HexToBytes(Get(d.data).digits) ELSE <<>>,
    gasPrice |-> d.gasPrice,
    maxFeePerGas |-> d.maxFeePerGas,
    maxPriorityFeePerGas |-> d.maxPriorityFeePerGas,
    chainId |-> IF IsSome(d.chainId) THEN Get(d.chainId) ELSE 0 ]

\* lines 677-757: gas and fee fields, then the unsigned serialization and
\* its hash
EthersGasFees(net) ==
  /\ pc = "gas" /\ rev = "ethers"
  /\ LET consults == /\ ~IsSome(transaction.gasLimit) \/ ~IsSome(transaction.gasPrice)
                     /\ HasRpcOrChain(transaction)
                     /\ IsSome(ResolveRpcUrl(transaction))
         d == EthersTypedFees(transaction, EthersGasFields(transaction, tx, net))
     IN  /\ consults \/ net = None
         /\ warnings' = IF consults /\ net = None THEN warnings + 1 ELSE warnings
         /\ tx' = d
         /\ IF EthersFieldsValid(d)
            THEN /\ unsignedTx' = Some(EthersTransactionFrom(d))
                 /\ pc' = "sign"
                 /\ UNCHANGED error
            ELSE /\ Throw("invalid transaction field")
                 /\ UNCHANGED unsignedTx
  /\ UNCHANGED <<inputVars, useEIP1559, signRequests, signCommand, sigVars, sideVars>>

\* lines 836-847: signature { r, s, v: 0 } attached to the same `tx`
EthersSignedTransaction(d, r, s) ==
  LET u == EthersTransactionFrom(d) IN
  [ type |-> u.type, nonce |-> u.nonce, gasLimit |-> u.gasLimit, to |-> u.to,
    value |-> u.value, data |-> u.data, gasPrice |-> u.gasPrice,
    maxFeePerGas |-> u.maxFeePerGas,
    maxPriorityFeePerGas |-> u.maxPriorityFeePerGas,
    chainId |-> u.chainId, r |-> r, s |-> s,
    yParity |-> Some(0), v |-> None ]

\* lines 767-850
EthersReceiveSignature(resp) ==
  /\ pc = "awaitSign" /\ op = "signTransaction" /\ rev = "ethers"
  /\ IF resp.kind = "throw"
     THEN /\ Throw("KMS request failed")
          /\ UNCHANGED sigVars
     ELSE IF resp.kind = "absent"
     THEN /\ Throw("Failed to sign transaction with KMS")
          /\ UNCHANGED sigVars
     ELSE
       LET der == SignatureBytes(resp)
           parsed == ParseDerSignature(der)
       IN
       IF ~parsed.ok
       THEN /\ Throw(parsed.error)
            /\ derSignature' = der
            /\ signResponse' = resp
            /\ UNCHANGED <<rPadded, sPadded, sCanonical, sWasFlipped, tried, signedTx>>
       ELSE
         LET rP == CopyRightAligned(parsed.r)
             sP == CopyRightAligned(parsed.s)
             sC == CanonicalS(sP)
         IN
         /\ derSignature' = der
         /\ signResponse' = resp
         /\ rPadded' = rP
         /\ sPadded' = sP
         /\ sCanonical' = sC
         /\ signedTx' = Some(EthersSignedTransaction(tx, rP, sC))
         /\ pc' = "returned"
         /\ UNCHANGED <<sWasFlipped, tried, error>>
  /\ UNCHANGED <<inputVars, draftVars, signRequests, signCommand, warnings, sideVars>>

(***************************************************************************)
(* signMessage (signing.ts 469-500 and 855-882).                           *)
(***************************************************************************)
\* lines 474-490: the EIP-191 hash of the message is computed locally
MessageBegin ==
  /\ pc = "idle"
  /\ op' = "signMessage"
  /\ pc' = "sign"
  /\ UNCHANGED <<rev, transaction, draftVars, signRequests, signCommand, sigVars, error, warnings, sideVars>>

\* lines 492-499: the DER signature is returned as hex
MessageReceiveSignature(resp) ==
  /\ pc = "awaitSign" /\ op = "signMessage"
  /\ IF resp.kind = "throw"
     THEN /\ Throw("KMS request failed")
          /\ UNCHANGED sigVars
     ELSE IF resp.kind = "absent"
     THEN /\ Throw("Failed to sign message with KMS")
          /\ UNCHANGED sigVars
     ELSE /\ derSignature' = SignatureBytes(resp)
          /\ signResponse' = resp
          /\ pc' = "returned"
          /\ UNCHANGED <<rPadded, sPadded, sCanonical, sWasFlipped, tried, signedTx,
                         error>>
  /\ UNCHANGED <<inputVars, draftVars, signRequests, signCommand, warnings, sideVars>>

(***************************************************************************)
(* submitTransaction.  Three revisions: "ethers" is src/core/submit.ts,    *)
(* "web3" is the revision that awaits the PromiEvent (part_005), and       *)
(* "web3-events" is the event-driven revision (part_006).                  *)
(***************************************************************************)
SubmitRevisions == {"ethers", "web3", "web3-events"}

SubmitOptionsSet ==
  { [rpcUrl |-> u, chainId |-> c, waitForConfirmation |-> w] :
      u \in Opt({"rpc"}), c \in Opt({1, 31337}), w \in BOOLEAN }

\* mutant: the chain's configured endpoint is preferred to the explicit one
SubmitProviderUrl_ChainFirst(o) ==
  IF IsSome(o.chainId) /\ Get(o.chainId) # 0 /\ Get(o.chainId) \in KnownChainIds
  THEN Some("default-rpc")
  ELSE o.rpcUrl

\* rpcUrl, else CHAIN_RPC_URLS[chainId] when chainId is known
SubmitProviderUrl(o) ==
  IF IsSome(o.rpcUrl) THEN o.rpcUrl
  ELSE IF IsSome(o.chainId) /\ Get(o.chainId) # 0 /\ Get(o.chainId) \in KnownChainIds
  THEN Some("default-rpc")
  ELSE None

\* the endpoint is determined and the provider / Web3 instance created
SubmitBegin(o, r) ==
  /\ pc = "idle"
  /\ op' = "submitTransaction"
  /\ rev' = r
  /\ options' = Some(o)
  /\ providerUrl' = SubmitProviderUrl(o)
  /\ IF IsSome(SubmitProviderUrl(o))
     THEN pc' = "broadcast" /\ UNCHANGED error
     ELSE Throw("RPC URL required")
  /\ UNCHANGED <<transaction, draftVars, signRequests, signCommand, sigVars, warnings,
                 broadcasts, nodeEvents, submitResult, keyVars, pubVars, cliVars>>

\* mutant: the signed transaction is handed to the node again while the
\* first answer is outstanding
SendSignedTransaction_Resend ==
  /\ op = "submitTransaction" /\ pc \in {"broadcast", "awaitNode"}
  /\ broadcasts' = broadcasts + 1
  /\ pc' = "awaitNode"
  /\ UNCHANGED <<inputVars, draftVars, signRequests, signCommand, sigVars, error, warnings,
                 options, providerUrl, nodeEvents, submitResult, keyVars, pubVars, cliVars>>

\* provider.broadcastTransaction(signedTransaction) /
\* web3.eth.sendSignedTransaction(signedTransaction)
SendSignedTransaction ==
  /\ op = "submitTransaction" /\ pc = "broadcast"
  /\ broadcasts' = broadcasts + 1
  /\ pc' = "awaitNode"
  /\ UNCHANGED <<inputVars, draftVars, signRequests, signCommand, sigVars, error, warnings,
                 options, providerUrl, nodeEvents, submitResult, keyVars, pubVars, cliVars>>

\* What the node may answer to a broadcast
HashEvent ==
  [type |-> "transactionHash", blockNumber |-> None, status |-> None, message |-> ""]
ReceiptEvents ==
  { [type |-> "receipt", blockNumber |-> b, status |-> st, message |-> ""] :
      b \in Opt({5}), st \in Opt({0, 1}) }
ErrorEvents ==
  { [type |-> "error", blockNumber |-> None, status |-> None, message |-> m] :
      m \in {"nonce too low", "timeout"} }
NodeEvents == {HashEvent} \cup ReceiptEvents \cup ErrorEvents

EventTypes(events) == { events[i].type : i \in 1..Len(events) }

\* { txHash }
HashResult ==
  [txHash |-> "hash", blockNumber |-> None, confirmations |-> None, status |-> None]

\* throw new Error(`Transaction failed: ${error.reason || error.message}`)
TransactionFailed(message) == Throw("Transaction failed: " \o message)

\* what `receipt.confirmations` is in the ethers revision: a number, a
\* function that answers, a function that throws, or neither
ConfirmationKinds == {"number", "function", "throws", "other"}

NullReceipt ==
  [type |-> "null", blockNumber |-> None, status |-> None, message |-> ""]

\* mutant: the call returns the hash without looking at waitForConfirmation
EthersBroadcastAnswer_NeverWaits(e) ==
  /\ op = "submitTransaction" /\ rev = "ethers" /\ pc = "awaitNode"
  /\ nodeEvents' = Append(nodeEvents, e)
  /\ IF e.type = "error"
     THEN TransactionFailed(e.message) /\ UNCHANGED submitResult
     ELSE /\ submitResult' = Some(HashResult)
          /\ pc' = "returned"
          /\ UNCHANGED error
  /\ UNCHANGED <<inputVars, draftVars, signRequests, signCommand, sigVars, warnings,
                 options, providerUrl, broadcasts, keyVars, pubVars, cliVars>>

\* submit.ts 70-75 and 101-111: the answer to broadcastTransaction
EthersBroadcastAnswer(e) ==
  /\ op = "submitTransaction" /\ rev = "ethers" /\ pc = "awaitNode"
  /\ nodeEvents' = Append(nodeEvents, e)
  /\ IF e.type = "error"
     THEN TransactionFailed(e.message) /\ UNCHANGED submitResult
     ELSE IF Get(options).waitForConfirmation
     THEN pc' = "awaitReceipt" /\ UNCHANGED <<error, submitResult>>
     ELSE /\ submitResult' = Some(HashResult)
          /\ pc' = "returned"
          /\ UNCHANGED error
  /\ UNCHANGED <<inputVars, draftVars, signRequests, signCommand, sigVars, warnings,
                 options, providerUrl, broadcasts, keyVars, pubVars, cliVars>>

\* submit.ts 78-98 and 104-111: the answer to txResponse.wait()
EthersWaitAnswer(e, conf) ==
  /\ op = "submitTransaction" /\ rev = "ethers" /\ pc = "awaitReceipt"
  /\ nodeEvents' = Append(nodeEvents, e)
  /\ IF e.type = "error"
     THEN TransactionFailed(e.message) /\ UNCHANGED submitResult
     ELSE IF e.type = "null"
     THEN TransactionFailed("Transaction receipt is null") /\ UNCHANGED submitResult
     ELSE IF conf = "throws"
     THEN TransactionFailed("timeout") /\ UNCHANGED submitResult
     ELSE /\ submitResult' =
               Some([txHash |-> "hash", blockNumber |-> e.blockNumber,
                     confirmations |-> IF conf = "other" THEN Some(0) ELSE Some(3),
                     status |-> e.status])
          /\ pc' = "returned"
          /\ UNCHANGED error
  /\ UNCHANGED <<inputVars, draftVars, signRequests, signCommand, sigVars, warnings,
                 options, providerUrl, broadcasts, keyVars, pubVars, cliVars>>

\* the receipt the node has emitted
EmittedReceipt ==
  LET i == CHOOSE i \in 1..Len(nodeEvents) : nodeEvents[i].type = "receipt"
  IN  nodeEvents[i]

\* receipt.blockNumber ? currentBlock - receipt.blockNumber + 1 : 0
Confirmations(receipt, currentBlock) ==
  IF IsSome(receipt.blockNumber) /\ Get(receipt.blockNumber) # 0
  THEN currentBlock - Get(receipt.blockNumber) + 1
  ELSE 0

ReceiptResult(receipt, currentBlock) ==
  [txHash |-> "hash", blockNumber |-> receipt.blockNumber,
   confirmations |-> Some(Confirmations(receipt, currentBlock)),
   status |-> receipt.status]

\* part_005 51-91: the PromiEvent emits e.  When waiting, `await sendTx`
\* settles on the receipt or on the error; when not waiting, the promise at
\* 83-86 settles on the transaction hash or on the error.
Web3NodeEvent(e) ==
  /\ op = "submitTransaction" /\ rev = "web3" /\ broadcasts > 0
  /\ pc \in {"awaitNode", "blockNumber", "returned", "failed"}
  /\ e.type \notin EventTypes(nodeEvents)
  /\ nodeEvents' = Append(nodeEvents, e)
  /\ IF pc = "awaitNode" /\ e.type = "error"
     THEN TransactionFailed(e.message) /\ UNCHANGED submitResult
     ELSE IF pc = "awaitNode" /\ e.type = "receipt"
             /\ Get(options).waitForConfirmation
     THEN pc' = "blockNumber" /\ UNCHANGED <<error, submitResult>>
     ELSE IF pc = "awaitNode" /\ e.type = "transactionHash"
             /\ ~Get(options).waitForConfirmation
     THEN /\ submitResult' = Some(HashResult)
          /\ pc' = "returned"
          /\ UNCHANGED error
     ELSE UNCHANGED <<pc, error, submitResult>>
  /\ UNCHANGED <<inputVars, draftVars, signRequests, signCommand, sigVars, warnings,
                 options, providerUrl, broadcasts, keyVars, pubVars, cliVars>>

\* part_005 66-79 and 92-95: the answer to web3.eth.getBlockNumber()
Web3BlockNumber(net) ==
  /\ op = "submitTransaction" /\ rev = "web3" /\ pc = "blockNumber"
  /\ IF net = None
     THEN TransactionFailed("timeout") /\ UNCHANGED submitResult
     ELSE /\ submitResult' = Some(ReceiptResult(EmittedReceipt, Get(net)))
          /\ pc' = "returned"
          /\ UNCHANGED error
  /\ UNCHANGED <<inputVars, draftVars, signRequests, signCommand, sigVars, warnings,
                 options, providerUrl, broadcasts, nodeEvents, keyVars, pubVars, cliVars>>

\* part_006 51-84: the handlers of 'transactionHash', 'receipt' and 'error';
\* resolve and reject have an effect on a pending promise only
Web3EventsNodeEvent(e) ==
  /\ op = "submitTransaction" /\ rev = "web3-events" /\ broadcasts > 0
  /\ pc \in {"awaitNode", "blockNumber", "returned", "failed"}
  /\ e.type \notin EventTypes(nodeEvents)
  /\ nodeEvents' = Append(nodeEvents, e)
  /\ IF pc \in {"awaitNode", "blockNumber"} /\ e.type = "error"
     THEN TransactionFailed(e.message) /\ UNCHANGED submitResult
     ELSE IF pc = "awaitNode" /\ e.type = "receipt"
             /\ Get(options).waitForConfirmation
     THEN pc' = "blockNumber" /\ UNCHANGED <<error, submitResult>>
     ELSE IF pc = "awaitNode" /\ e.type = "transactionHash"
             /\ ~Get(options).waitForConfirmation
     THEN /\ submitResult' = Some(HashResult)
          /\ pc' = "returned"
          /\ UNCHANGED error
     ELSE UNCHANGED <<pc, error, submitResult>>
  /\ UNCHANGED <<inputVars, draftVars, signRequests, signCommand, sigVars, warnings,
                 options, providerUrl, broadcasts, keyVars, pubVars, cliVars>>

\* part_006 67-77: getBlockNumber().then(resolve).catch(reject); the
\* rejection is the transport error itself
Web3EventsBlockNumber(net) ==
  /\ op = "submitTransaction" /\ rev = "web3-events" /\ pc = "blockNumber"
  /\ IF net = None
     THEN Throw("timeout") /\ UNCHANGED submitResult
     ELSE /\ submitResult' = Some(ReceiptResult(EmittedReceipt, Get(net)))
          /\ pc' = "returned"
          /\ UNCHANGED error
  /\ UNCHANGED <<inputVars, draftVars, signRequests, signCommand, sigVars, warnings,
                 options, providerUrl, broadcasts, nodeEvents, keyVars, pubVars, cliVars>>

SubmitNext ==
  \/ \E o \in SubmitOptionsSet, r \in SubmitRevisions : SubmitBegin(o, r)
  \/ SendSignedTransaction
  \/ \E e \in {HashEvent} \cup ErrorEvents : EthersBroadcastAnswer(e)
  \/ \E e \in ReceiptEvents \cup ErrorEvents \cup {NullReceipt},
        conf \in ConfirmationKinds : EthersWaitAnswer(e, conf)
  \/ \E e \in NodeEvents : Web3NodeEvent(e)
  \/ \E net \in Opt({7}) : Web3BlockNumber(net)
  \/ \E e \in NodeEvents : Web3EventsNodeEvent(e)
  \/ \E net \in Opt({7}) : Web3EventsBlockNumber(net)

SubmitSpec == Init /\ [][SubmitNext]_vars

(***************************************************************************)
(* Key import, src/core/setup.ts.                                          *)
(***************************************************************************)
\* 1.2.840.10045.2.1 and 1.3.132.0.10
EC_PUBLIC_KEY_OID == <<42, 134, 72, 206, 61, 2, 1>>
SECP256K1_OID == <<43, 129, 4, 0, 10>>

\* mutant: every length is written in the long form 0x81 len
encodeLength_LongForm(len) == <<129, len>>

\* lines 35-45; a length of 0x10000 or more throws 'Length too large'
encodeLength(len) ==
  IF len < 128 THEN <<len>>
  ELSE IF len < 256 THEN <<129, len>>
  ELSE IF len < 65536 THEN <<130, len \div 256, len % 256>>
  ELSE <<Undefined>>

\* lines 48-51
encodeTLV(tag, value) == <<tag>> \o encodeLength(Len(value)) \o value

\* mutant: the scalar is written without its leading zero bytes
privateKeyToPKCS8_Minimal(bytes) ==
  IF Len(bytes) # 32
  THEN [ok |-> FALSE, error |-> "Private key must be exactly 32 bytes", der |-> <<>>]
  ELSE
    LET version == encodeTLV(2, <<1>>)
        privateKeyOctet == encodeTLV(4, StripZeros(bytes))
        ecPrivateKeySeq == encodeTLV(48, version \o privateKeyOctet)
        ecPublicKeyOid == encodeTLV(6, EC_PUBLIC_KEY_OID)
        secp256k1Oid == encodeTLV(6, SECP256K1_OID)
        algorithmId == encodeTLV(48, ecPublicKeyOid \o secp256k1Oid)
        pkcs8Version == encodeTLV(2, <<0>>)
        privateKeyOctetString == encodeTLV(4, ecPrivateKeySeq)
    IN  [ok |-> TRUE, error |-> "",
         der |-> encodeTLV(48, pkcs8Version \o algorithmId \o privateKeyOctetString)]

\* mutant: a scalar of another length is cut or left-padded to 32 bytes
privateKeyToPKCS8_Pads(bytes) ==
  LET version == encodeTLV(2, <<1>>)
      privateKeyOctet == encodeTLV(4, CopyRightAligned(bytes))
      ecPrivateKeySeq == encodeTLV(48, version \o privateKeyOctet)
      ecPublicKeyOid == encodeTLV(6, EC_PUBLIC_KEY_OID)
      secp256k1Oid == encodeTLV(6, SECP256K1_OID)
      algorithmId == encodeTLV(48, ecPublicKeyOid \o secp256k1Oid)
      pkcs8Version == encodeTLV(2, <<0>>)
      privateKeyOctetString == encodeTLV(4, ecPrivateKeySeq)
  IN  [ok |-> TRUE, error |-> "",
       der |-> encodeTLV(48, pkcs8Version \o algorithmId \o privateKeyOctetString)]

\* lines 25-81
privateKeyToPKCS8(bytes) ==
  IF Len(bytes) # 32
  THEN [ok |-> FALSE, error |-> "Private key must be exactly 32 bytes", der |-> <<>>]
  ELSE
    LET version == encodeTLV(2, <<1>>)
        privateKeyOctet == encodeTLV(4, bytes)
        ecPrivateKeySeq == encodeTLV(48, version \o privateKeyOctet)
        ecPublicKeyOid == encodeTLV(6, EC_PUBLIC_KEY_OID)
        secp256k1Oid == encodeTLV(6, SECP256K1_OID)
        algorithmId == encodeTLV(48, ecPublicKeyOid \o secp256k1Oid)
        pkcs8Version == encodeTLV(2, <<0>>)
        privateKeyOctetString == encodeTLV(4, ecPrivateKeySeq)
    IN  [ok |-> TRUE, error |-> "",
         der |-> encodeTLV(48, pkcs8Version \o algorithmId \o privateKeyOctetString)]

\* Characters of a key string: 0..15 are the hexadecimal digits, CharX is
\* 'x' and CharG stands for any other character
CharX == 16
CharG == 17

\* privateKeyHex.startsWith('0x')
StartsWith0x(str) == Len(str) >= 2 /\ str[1] = 0 /\ str[2] = CharX

\* lines 224-226
NormalizedKey(str) == IF StartsWith0x(str) THEN SubSeq(str, 3, Len(str)) ELSE str

\* /^[0-9a-fA-F]+$/.test(k)
IsHexString(k) == Len(k) >= 1 /\ \A i \in 1..Len(k) : k[i] \in 0..15

\* lines 229-236: the message of the validation error ("" if none)
KeyStringError(str) ==
  IF Len(NormalizedKey(str)) # 64
  THEN "Invalid private key length: expected 64 hex characters (32 bytes)"
  ELSE IF ~IsHexString(NormalizedKey(str))
  THEN "Invalid private key format: must be hexadecimal"
  ELSE ""

\* lines 380-403: every error is rethrown with this prefix
ImportFailed(message) == Throw("Failed to import key material: " \o message)

\* a command sent to KMS: its name, the Origin of a CreateKey ("" when the
\* field is not set), and the KeyId / TargetKeyId it names ("" for CreateKey)
KmsCommand(name, origin, keyId) == [name |-> name, Origin |-> origin, KeyId |-> keyId]

\* KeyMetadata.KeyId and KeyMetadata.Arn of the key that CreateKey made
NewKeyId == "key-id"
NewKeyArn == "key-arn"

\* lines 125-146 and 312-332: createdAlias after the answer to CreateAlias
AliasAfter(ans) ==
  IF ans \in {"ok", "AlreadyExistsException"} THEN Some("alias/name") ELSE None

\* what the answer tells about the alias in KMS: made for the new key, or
\* present before this call made its key, hence targeting an earlier key
AliasTargetAfter(ans) ==
  IF ans = "ok" THEN Some(NewKeyId)
  ELSE IF ans = "AlreadyExistsException" THEN Some("earlier-key-id")
  ELSE None

\* lines 193-197 and 375-379: { keyId, keyArn, aliasName: createdAlias || keyId }
KeyResult(alias) ==
  [keyId |-> NewKeyId, keyArn |-> NewKeyArn,
   aliasName |-> IF IsSome(alias) THEN Get(alias) ELSE NewKeyId]

\* Key strings given to importKMSKey: digit strings of 0 and 62..66
\* characters in three patterns, with and without the 0x prefix, with and
\* without one character that is not a hexadecimal digit
KeyDigits ==
  { [i \in 1..n |-> IF pat = 1 THEN (i * 7) % 16
                    ELSE IF pat = 2 THEN (IF i = n THEN 1 ELSE 0)
                    ELSE 15] :
      n \in {0} \cup (62..66), pat \in 1..3 }

KeyStrings ==
  { prefix \o (IF bad > 0 /\ bad <= Len(d) THEN [d EXCEPT ![bad] = CharG] ELSE d) :
      prefix \in {<<>>, <<0, CharX>>}, d \in KeyDigits, bad \in {0, 1, 64} }

\* Buffers given to privateKeyToPKCS8 directly: 31, 32 and 33 bytes
KeyBuffers ==
  { [i \in 1..n |-> IF pat = 1 THEN (i * 37) % 256
                    ELSE IF pat = 2 THEN (IF i = n THEN 1 ELSE 0)
                    ELSE 255] :
      n \in 31..33, pat \in 1..3 }

\* a call of privateKeyToPKCS8 on a Buffer
EncodeKey(bytes) ==
  /\ pc = "idle"
  /\ op' = "privateKeyToPKCS8"
  /\ privateKeyBytes' = bytes
  /\ LET encoded == privateKeyToPKCS8(bytes) IN
     IF encoded.ok
     THEN /\ pkcs8KeyMaterial' = encoded.der
          /\ pc' = "returned"
          /\ UNCHANGED error
     ELSE /\ Throw(encoded.error)
          /\ UNCHANGED pkcs8KeyMaterial
  /\ UNCHANGED <<rev, transaction, draftVars, signRequests, signCommand, sigVars, warnings,
                 submitVars, privateKeyHex, kmsCommands, createdAlias,
                 importResult, pubVars, cliVars,
                 createResult, kmsAliasTarget>>

\* importKMSKey, lines 220-257: the key string is normalised, validated,
\* converted and encoded, then the CreateKeyCommand is sent
ImportBegin(str) ==
  /\ pc = "idle"
  /\ op' = "importKMSKey"
  /\ privateKeyHex' = str
  /\ IF KeyStringError(str) # ""
     THEN /\ ImportFailed(KeyStringError(str))
          /\ UNCHANGED <<privateKeyBytes, pkcs8KeyMaterial, kmsCommands>>
     ELSE LET bytes == HexToBytes(NormalizedKey(str))
              encoded == privateKeyToPKCS8(bytes)
          IN  /\ privateKeyBytes' = bytes
              /\ IF encoded.ok
                 THEN /\ pkcs8KeyMaterial' = encoded.der
                      /\ kmsCommands' = Append(kmsCommands, KmsCommand("CreateKey", "EXTERNAL", ""))
                      /\ pc' = "createKey"
                      /\ UNCHANGED error
                 ELSE /\ ImportFailed(encoded.error)
                      /\ UNCHANGED <<pkcs8KeyMaterial, kmsCommands>>
  /\ UNCHANGED <<rev, transaction, draftVars, signRequests, signCommand, sigVars, warnings,
                 submitVars, createdAlias, importResult, pubVars, cliVars,
                 createResult, kmsAliasTarget>>

\* mutant: the key material is imported without asking for the import
\* parameters
ImportCreateKeyAnswer_SkipsParameters(ans) ==
  /\ op = "importKMSKey" /\ pc = "createKey"
  /\ IF ans = "ok"
     THEN /\ kmsCommands' = Append(kmsCommands, KmsCommand("ImportKeyMaterial", "", NewKeyId))
          /\ pc' = "importMaterial"
          /\ UNCHANGED error
     ELSE /\ ImportFailed(IF ans = "absent" THEN "Failed to create KMS key for import"
                          ELSE "KMS request failed")
          /\ UNCHANGED kmsCommands
  /\ UNCHANGED <<inputVars, draftVars, signRequests, signCommand, sigVars, warnings, submitVars,
                 privateKeyHex, privateKeyBytes, pkcs8KeyMaterial, createdAlias,
                 importResult, pubVars, cliVars,
                 createResult, kmsAliasTarget>>

\* lines 257-273: the answer to CreateKeyCommand; then
\* GetParametersForImportCommand is sent
ImportCreateKeyAnswer(ans) ==
  /\ op = "importKMSKey" /\ pc = "createKey"
  /\ IF ans = "ok"
     THEN /\ kmsCommands' = Append(kmsCommands, KmsCommand("GetParametersForImport", "", NewKeyId))
          /\ pc' = "getParams"
          /\ UNCHANGED error
     ELSE /\ ImportFailed(IF ans = "absent" THEN "Failed to create KMS key for import"
                          ELSE "KMS request failed")
          /\ UNCHANGED kmsCommands
  /\ UNCHANGED <<inputVars, draftVars, signRequests, signCommand, sigVars, warnings, submitVars,
                 privateKeyHex, privateKeyBytes, pkcs8KeyMaterial, createdAlias,
                 importResult, pubVars, cliVars,
                 createResult, kmsAliasTarget>>

\* lines 273-310: the answer to GetParametersForImportCommand; the PKCS#8
\* key material is encrypted under the wrapping key ("badKey": the
\* wrapping key cannot be read) and ImportKeyMaterialCommand is sent
ImportParametersAnswer(ans) ==
  /\ op = "importKMSKey" /\ pc = "getParams"
  /\ IF ans = "ok"
     THEN /\ kmsCommands' = Append(kmsCommands, KmsCommand("ImportKeyMaterial", "", NewKeyId))
          /\ pc' = "importMaterial"
          /\ UNCHANGED error
     ELSE /\ ImportFailed(IF ans = "absent"
                          THEN "Failed to get import parameters from KMS"
                          ELSE IF ans = "badKey" THEN "unsupported key"
                          ELSE "KMS request failed")
          /\ UNCHANGED kmsCommands
  /\ UNCHANGED <<inputVars, draftVars, signRequests, signCommand, sigVars, warnings, submitVars,
                 privateKeyHex, privateKeyBytes, pkcs8KeyMaterial, createdAlias,
                 importResult, pubVars, cliVars,
                 createResult, kmsAliasTarget>>

\* lines 310-319: the answer to ImportKeyMaterialCommand; then
\* CreateAliasCommand is sent
ImportMaterialAnswer(ans) ==
  /\ op = "importKMSKey" /\ pc = "importMaterial"
  /\ IF ans = "ok"
     THEN /\ kmsCommands' = Append(kmsCommands, KmsCommand("CreateAlias", "", NewKeyId))
          /\ pc' = "alias"
          /\ UNCHANGED error
     ELSE /\ ImportFailed("KMS request failed")
          /\ UNCHANGED kmsCommands
  /\ UNCHANGED <<inputVars, draftVars, signRequests, signCommand, sigVars, warnings, submitVars,
                 privateKeyHex, privateKeyBytes, pkcs8KeyMaterial, createdAlias,
                 importResult, pubVars, cliVars,
                 createResult, kmsAliasTarget>>

\* lines 313-370: the answer to CreateAliasCommand; then PutKeyPolicyCommand
\* is sent
ImportAliasAnswer(ans) ==
  /\ op = "importKMSKey" /\ pc = "alias"
  /\ createdAlias' = AliasAfter(ans)
  /\ kmsAliasTarget' = AliasTargetAfter(ans)
  /\ warnings' = IF ans \in {"ok", "AlreadyExistsException"}
                 THEN warnings ELSE warnings + 1
  /\ kmsCommands' = Append(kmsCommands, KmsCommand("PutKeyPolicy", "", NewKeyId))
  /\ pc' = "policy"
  /\ UNCHANGED <<inputVars, draftVars, signRequests, signCommand, sigVars, error, submitVars,
                 privateKeyHex, privateKeyBytes, pkcs8KeyMaterial,
                 importResult, pubVars, cliVars,
                 createResult>>

\* lines 364-379: the answer to PutKeyPolicyCommand, and the result
ImportPolicyAnswer(ans) ==
  /\ op = "importKMSKey" /\ pc = "policy"
  /\ warnings' = IF ans = "ok" THEN warnings ELSE warnings + 1
  /\ importResult' =
       Some(KeyResult(createdAlias))
  /\ pc' = "returned"
  /\ UNCHANGED <<inputVars, draftVars, signRequests, signCommand, sigVars, error, submitVars,
                 privateKeyHex, privateKeyBytes, pkcs8KeyMaterial, kmsCommands,
                 createdAlias, pubVars, cliVars,
                 createResult, kmsAliasTarget>>

\* throw new Error(`Failed to create KMS key: ${error.message}`)
CreateFailed(message) == Throw("Failed to create KMS key: " \o message)

\* createKMSKey, lines 98-115: CreateKeyCommand is sent
CreateBegin ==
  /\ pc = "idle"
  /\ op' = "createKMSKey"
  /\ kmsCommands' = Append(kmsCommands, KmsCommand("CreateKey", "", ""))
  /\ pc' = "createKey"
  /\ UNCHANGED <<rev, transaction, draftVars, signRequests, signCommand, sigVars, error,
                 warnings, submitVars, privateKeyHex, privateKeyBytes, pkcs8KeyMaterial,
                 createdAlias, importResult, createResult, kmsAliasTarget, pubVars,
                 cliVars>>

\* lines 115-132: the answer to CreateKeyCommand; then CreateAliasCommand
\* is sent for the new key
CreateKeyAnswer(ans) ==
  /\ op = "createKMSKey" /\ pc = "createKey"
  /\ IF ans = "ok"
     THEN /\ kmsCommands' = Append(kmsCommands, KmsCommand("CreateAlias", "", NewKeyId))
          /\ pc' = "alias"
          /\ UNCHANGED error
     ELSE /\ CreateFailed(IF ans = "absent" THEN "Failed to create KMS key"
                          ELSE "KMS request failed")
          /\ UNCHANGED kmsCommands
  /\ UNCHANGED <<inputVars, draftVars, signRequests, signCommand, sigVars, warnings,
                 submitVars, privateKeyHex, privateKeyBytes, pkcs8KeyMaterial,
                 createdAlias, importResult, createResult, kmsAliasTarget, pubVars,
                 cliVars>>

\* lines 132-185: the answer to CreateAliasCommand; then PutKeyPolicyCommand
\* is sent
CreateAliasAnswer(ans) ==
  /\ op = "createKMSKey" /\ pc = "alias"
  /\ createdAlias' = AliasAfter(ans)
  /\ kmsAliasTarget' = AliasTargetAfter(ans)
  /\ warnings' = IF ans \in {"ok", "AlreadyExistsException"}
                 THEN warnings ELSE warnings + 1
  /\ kmsCommands' = Append(kmsCommands, KmsCommand("PutKeyPolicy", "", NewKeyId))
  /\ pc' = "policy"
  /\ UNCHANGED <<inputVars, draftVars, signRequests, signCommand, sigVars, error,
                 submitVars, privateKeyHex, privateKeyBytes, pkcs8KeyMaterial,
                 importResult, createResult, pubVars, cliVars>>

\* lines 178-197: the answer to PutKeyPolicyCommand, and the result
CreatePolicyAnswer(ans) ==
  /\ op = "createKMSKey" /\ pc = "policy"
  /\ warnings' = IF ans = "ok" THEN warnings ELSE warnings + 1
  /\ createResult' = Some(KeyResult(createdAlias))
  /\ pc' = "returned"
  /\ UNCHANGED <<inputVars, draftVars, signRequests, signCommand, sigVars, error,
                 submitVars, privateKeyHex, privateKeyBytes, pkcs8KeyMaterial,
                 kmsCommands, createdAlias, importResult, kmsAliasTarget, pubVars,
                 cliVars>>

SetupNext ==
  \/ \E bytes \in KeyBuffers : EncodeKey(bytes)
  \/ \E str \in KeyStrings : ImportBegin(str)
  \/ \E ans \in {"ok", "absent", "throw"} : ImportCreateKeyAnswer(ans)
  \/ \E ans \in {"ok", "absent", "badKey", "throw"} : ImportParametersAnswer(ans)
  \/ \E ans \in {"ok", "throw"} : ImportMaterialAnswer(ans)
  \/ \E ans \in {"ok", "AlreadyExistsException", "AccessDeniedException", "other"} :
        ImportAliasAnswer(ans)
  \/ \E ans \in {"ok", "throw"} : ImportPolicyAnswer(ans)
  \/ CreateBegin
  \/ \E ans \in {"ok", "absent", "throw"} : CreateKeyAnswer(ans)
  \/ \E ans \in {"ok", "AlreadyExistsException", "AccessDeniedException", "other"} :
        CreateAliasAnswer(ans)
  \/ \E ans \in {"ok", "throw"} : CreatePolicyAnswer(ans)

SetupSpec == Init /\ [][SetupNext]_vars

(***************************************************************************)
(* getPublicKey and getEthereumAddress (signing.ts 53-147).                *)
(***************************************************************************)
\* lines 86-88: while (offset < length && bytes[offset] !== 0x03) offset++
RECURSIVE FindBitString(_, _)
FindBitString(bytes, offset) ==
  IF offset < Len(bytes) /\ At(bytes, offset) # 3
  THEN FindBitString(bytes, offset + 1)
  ELSE offset

\* lines 72-117: the public key taken out of the response bytes.  On an
\* empty Buffer line 112 throws a TypeError instead of its own error.
ExtractPublicKey(bytes) ==
  LET fail(msg) == [ok |-> FALSE, error |-> msg, key |-> <<>>]
      done(key) ==
        IF At(key, 0) # 4
        THEN fail("Unexpected public key format: expected 0x04")
        ELSE [ok |-> TRUE, error |-> "", key |-> key]
  IN
  IF At(bytes, 0) = 4 THEN done(bytes)
  ELSE IF At(bytes, 0) = 48
  THEN LET found == FindBitString(bytes, 2)
           offset == found + 2
       IN  IF At(bytes, found) = 3
           THEN IF At(bytes, offset) = 0 /\ At(bytes, offset + 1) = 4
                THEN done(Slice(bytes, offset + 1, offset + 66))
                ELSE IF At(bytes, offset) = 4
                THEN done(Slice(bytes, offset, offset + 65))
                ELSE fail("Unexpected DER format: could not find public key")
           ELSE fail("Unexpected DER format: BIT STRING not found")
  ELSE IF bytes = <<>>
  THEN fail("Cannot read properties of undefined (reading 'toString')")
  ELSE fail("Unexpected public key format: starts with another byte")

\* lines 135-144: the address is the last 20 bytes of the Keccak-256 hash
\* of the key without its first byte; the hash is kept as a term
AddressOf(key) == [keccak256 |-> Tail(key)]

\* The points X || Y a key may have
Points == { [i \in 1..64 |-> (i * k + 1) % 256] : k \in {3, 5, 7, 11, 13} }

\* SubjectPublicKeyInfo up to the BIT STRING content, for a content of n
\* bytes: SEQUENCE { SEQUENCE { OID ecPublicKey, OID secp256k1 }, BIT STRING
SpkiHeader(n) ==
  <<48, n + 20, 48, 16, 6, 7, 42, 134, 72, 206, 61, 2, 1, 6, 5, 43, 129, 4, 0, 10,
    3, n>>

\* What GetPublicKeyCommand may answer: the point raw or wrapped, the
\* BIT STRING with or without its unused-bits byte, a compressed point,
\* each whole, one byte short or one byte long; other DER; nothing
PublicKeyShapes ==
  UNION { { <<4>> \o pt,
            SpkiHeader(66) \o <<0, 4>> \o pt,
            SpkiHeader(65) \o <<4>> \o pt,
            <<2>> \o SubSeq(pt, 1, 32),
            SpkiHeader(34) \o <<0, 2>> \o SubSeq(pt, 1, 32) } : pt \in Points }

PublicKeyResponses ==
  { [kind |-> "throw", bytes |-> <<>>], [kind |-> "absent", bytes |-> <<>>],
    [kind |-> "bytes", bytes |-> <<>>],
    [kind |-> "bytes", bytes |-> <<48, 2, 5, 0>>] }
  \cup { [kind |-> "bytes", bytes |-> SubSeq(b, 1, Len(b) - 1)] : b \in PublicKeyShapes }
  \cup { [kind |-> "bytes", bytes |-> b] : b \in PublicKeyShapes }
  \cup { [kind |-> "bytes", bytes |-> b \o <<0>>] : b \in PublicKeyShapes }

\* line 58 (and 134): the GetPublicKeyCommand is sent
GetPublicKeyBegin(o) ==
  /\ pc = "idle"
  /\ op' = o
  /\ pc' = "awaitPublicKey"
  /\ UNCHANGED <<rev, transaction, draftVars, signRequests, signCommand, sigVars, error,
                 warnings, submitVars, keyVars, pubVars, cliVars>>

\* lines 58-127 and 134-146: the answer, the key returned as hex and, for
\* getEthereumAddress, the address
GetPublicKeyAnswer(resp) ==
  /\ op \in {"getPublicKey", "getEthereumAddress"} /\ pc = "awaitPublicKey"
  /\ IF resp.kind = "throw"
     THEN /\ Throw("Failed to get public key: KMS request failed")
          /\ UNCHANGED pubVars
     ELSE IF resp.kind = "absent"
     THEN /\ Throw("Failed to get public key: Failed to get public key from KMS")
          /\ UNCHANGED pubVars
     ELSE LET extracted == ExtractPublicKey(resp.bytes) IN
          /\ publicKeyBytes' = resp.bytes
          /\ IF extracted.ok
             THEN /\ publicKey' = extracted.key
                  /\ address' = IF op = "getEthereumAddress"
                                THEN Some(AddressOf(extracted.key)) ELSE None
                  /\ pc' = "returned"
                  /\ UNCHANGED error
             ELSE /\ Throw("Failed to get public key: " \o extracted.error)
                  /\ UNCHANGED <<publicKey, address>>
  /\ UNCHANGED <<inputVars, draftVars, signRequests, signCommand, sigVars, warnings,
                 submitVars, keyVars, cliVars>>

PublicKeyNext ==
  \/ \E o \in {"getPublicKey", "getEthereumAddress"} : GetPublicKeyBegin(o)
  \/ \E resp \in PublicKeyResponses : GetPublicKeyAnswer(resp)

PublicKeySpec == Init /\ [][PublicKeyNext]_vars

(***************************************************************************)
(* The command lines, src/cli/sign.ts and src/cli/submit.ts.  An argument  *)
(* is kept with what the parsers ask of it: its text, parseInt of it, and  *)
(* whether Number() of it is a number, whether it matches /^0\.\d+$/, and, *)
(* for a function signature, the number of parameter types it lists.       *)
(***************************************************************************)
Word(t) == [text |-> t, int |-> NaN, numeric |-> FALSE, decimal |-> FALSE, arity |-> 0]
IntArg(n) == [text |-> ToString(n), int |-> n, numeric |-> TRUE, decimal |-> FALSE, arity |-> 0]
DecimalArg(t) == [text |-> t, int |-> 0, numeric |-> TRUE, decimal |-> TRUE, arity |-> 0]
Signature(t, n) == [text |-> t, int |-> NaN, numeric |-> FALSE, decimal |-> FALSE, arity |-> n]

\* str.startsWith(prefix)
StartsWith(str, prefix) ==
  /\ Len(str) >= Len(prefix)
  /\ SubSeq(str, 1, Len(prefix)) = prefix

\* args[i], with the source's indices from 0; undefined past the end
ArgAt(args, i) == IF i + 1 \in 1..Len(args) THEN Some(args[i + 1]) ELSE None
\* parseInt(args[i]); parseInt(undefined) is NaN
ParseInt(arg) == IF IsSome(arg) THEN Get(arg).int ELSE NaN
TextOf(arg) == IF IsSome(arg) THEN Some(Get(arg).text) ELSE None

\* a JavaScript value that is falsy: undefined or '' for a string,
\* undefined, 0 or NaN for a number
Falsy(v) == v = None \/ v = Some("")
FalsyNumber(v) == v = None \/ v = Some(0) \/ v = Some(NaN)

DefaultChainId == 84532

\* const options: TransactionOptions = { keyId }
NewOptions(keyId) ==
  [keyId |-> keyId, to |-> None, value |-> None, data |-> None, chainId |-> None,
   rpcUrl |-> None, nonce |-> None, gasLimit |-> None, gasPrice |-> None,
   maxFeePerGas |-> None, maxPriorityFeePerGas |-> None,
   submit |-> FALSE, waitForConfirmation |-> FALSE, message |-> None]

\* the three option loops (lines 119-146, 247-275, 287-320); only the loop of
\* the backward-compatible form takes a bare number as the chain id
RECURSIVE ParseOptions(_, _, _, _)
ParseOptions(args, i, o, legacy) ==
  IF i >= Len(args) THEN [exit |-> FALSE, options |-> o]
  ELSE
    LET arg == args[i + 1].text
        next == ArgAt(args, i + 1)
    IN  IF arg \in {"--chain-id", "-c"}
        THEN ParseOptions(args, i + 2, [o EXCEPT !.chainId = Some(ParseInt(next))], legacy)
        ELSE IF arg \in {"--rpc-url", "-r"}
        THEN ParseOptions(args, i + 2, [o EXCEPT !.rpcUrl = TextOf(next)], legacy)
        ELSE IF arg \in {"--value", "-v"}
        THEN ParseOptions(args, i + 2, [o EXCEPT !.value = TextOf(next)], legacy)
        ELSE IF arg \in {"--nonce", "-n"}
        THEN ParseOptions(args, i + 2, [o EXCEPT !.nonce = Some(ParseInt(next))], legacy)
        ELSE IF arg \in {"--gas-limit", "-g"}
        THEN ParseOptions(args, i + 2, [o EXCEPT !.gasLimit = TextOf(next)], legacy)
        ELSE IF arg = "--gas-price"
        THEN ParseOptions(args, i + 2, [o EXCEPT !.gasPrice = TextOf(next)], legacy)
        ELSE IF arg = "--max-fee-per-gas"
        THEN ParseOptions(args, i + 2, [o EXCEPT !.maxFeePerGas = TextOf(next)], legacy)
        ELSE IF arg = "--max-priority-fee-per-gas"
        THEN ParseOptions(args, i + 2, [o EXCEPT !.maxPriorityFeePerGas = TextOf(next)], legacy)
        ELSE IF arg \in {"--submit", "-s"}
        THEN ParseOptions(args, i + 1, [o EXCEPT !.submit = TRUE], legacy)
        ELSE IF arg \in {"--wait", "-w"}
        THEN ParseOptions(args, i + 1, [o EXCEPT !.waitForConfirmation = TRUE], legacy)
        ELSE IF legacy /\ args[i + 1].numeric /\ o.chainId = None
        THEN ParseOptions(args, i + 1, [o EXCEPT !.chainId = Some(args[i + 1].int)], legacy)
        ELSE [exit |-> TRUE, options |-> o]

\* lines 161-167: the arguments after the signature up to the first that
\* starts with '--'
RECURSIVE PotentialParams(_, _)
PotentialParams(args, i) ==
  IF i >= Len(args) \/ StartsWith(args[i + 1].text, "--") THEN <<>>
  ELSE <<args[i + 1]>> \o PotentialParams(args, i + 1)

\* /^\d{1,5}$/.test(param) && parseInt(param) > 1000
LooksLikeChainId(param) ==
  param.numeric /\ ~param.decimal /\ param.int > 1000 /\ param.int < 100000

\* lines 182-224: the parameters of the call, encoded at 227-236 and the value and chain id
\* detected among them; a parameter is kept by its text
RECURSIVE DetectOptions(_, _, _, _)
DetectOptions(params, j, expected, acc) ==
  IF j > Len(params) THEN acc
  ELSE
    LET param == params[j]
    IN  IF Len(params) <= expected \/ Len(acc.parameters) < expected
        THEN DetectOptions(params, j + 1, expected,
                           [acc EXCEPT !.parameters = Append(@, param.text)])
        ELSE IF param.decimal /\ acc.value = None
        THEN DetectOptions(params, j + 1, expected,
                           [acc EXCEPT !.value = Some(param.text)])
        ELSE IF LooksLikeChainId(param) /\ acc.chainId = None
        THEN DetectOptions(params, j + 1, expected,
                           [acc EXCEPT !.chainId = Some(param.int)])
        ELSE DetectOptions(params, j + 1, expected,
                           [acc EXCEPT !.parameters = Append(@, param.text)])

SimpleCommands == {"address", "publickey", "public-key", "pubkey"}

\* lines 325-327
SetDefaults(o, e) ==
  [o EXCEPT !.chainId = IF FalsyNumber(o.chainId)
                         THEN Some(IF Falsy(TextOf(e.CHAIN_ID))
                                   THEN DefaultChainId
                                   ELSE Get(e.CHAIN_ID).int)
                         ELSE o.chainId,
            !.rpcUrl = IF Falsy(o.rpcUrl) THEN e.RPC_URL ELSE o.rpcUrl]

\* parseArguments (lines 76-330) on process.argv.slice(2) and process.env
parseArguments(args, e) ==
  IF Len(args) < 1
  THEN [exit |-> TRUE, command |-> "", options |-> NewOptions(""), autoDetected |-> FALSE]
  ELSE
    LET keyId == IF Falsy(e.KMS_KEY_ID) THEN args[1].text ELSE Get(e.KMS_KEY_ID)
        command == IF Len(args) >= 2 /\ args[2].text # "" THEN args[2].text ELSE "transfer"
        opts == NewOptions(keyId)
        Result(cmd, parsed, auto) ==
          [exit |-> parsed.exit, command |-> cmd, options |-> parsed.options,
           autoDetected |-> auto]
        Kept(o) == [exit |-> FALSE, options |-> o]
    IN  IF command \in SimpleCommands THEN Result(command, Kept(opts), FALSE)
        ELSE IF command = "message"
        THEN Result(command,
                    Kept([opts EXCEPT !.message =
                            IF Falsy(TextOf(ArgAt(args, 2))) THEN Some("Hello, Ethereum!")
                            ELSE TextOf(ArgAt(args, 2))]),
                    FALSE)
        ELSE IF command = "transfer"
        THEN IF Len(args) < 3 THEN Result(command, [exit |-> TRUE, options |-> opts], FALSE)
             ELSE
               LET o == [opts EXCEPT
                           !.to = TextOf(ArgAt(args, 2)),
                           !.value = IF Falsy(TextOf(ArgAt(args, 3))) THEN Some("0")
                                     ELSE TextOf(ArgAt(args, 3)),
                           !.chainId = IF Falsy(TextOf(ArgAt(args, 4))) THEN None
                                       ELSE Some(ParseInt(ArgAt(args, 4)))]
                   parsed == ParseOptions(args, 5, o, FALSE)
               IN  Result(command,
                          [parsed EXCEPT !.options = SetDefaults(parsed.options, e)],
                          FALSE)
        ELSE IF command = "call"
        THEN IF Len(args) < 4 THEN Result(command, [exit |-> TRUE, options |-> opts], FALSE)
             ELSE
               LET potentialParams == PotentialParams(args, 4)
                   detected == DetectOptions(potentialParams, 1, args[4].arity,
                                 [parameters |-> <<>>, value |-> None, chainId |-> None])
                   o == [opts EXCEPT
                           !.to = TextOf(ArgAt(args, 2)),
                           !.data = Some([signature |-> args[4].text,
                                          parameters |-> detected.parameters]),
                           !.value = IF Falsy(detected.value) THEN None ELSE detected.value,
                           !.chainId = IF FalsyNumber(detected.chainId) THEN None
                                       ELSE detected.chainId]
                   parsed == ParseOptions(args, 4 + Len(potentialParams), o, FALSE)
               IN  Result(command,
                          [parsed EXCEPT !.options = SetDefaults(parsed.options, e)],
                          ~Falsy(detected.value) \/ ~FalsyNumber(detected.chainId))
        ELSE
          LET o == [opts EXCEPT
                      !.to = Some(command),
                      !.value = IF Falsy(TextOf(ArgAt(args, 2))) THEN Some("0")
                                ELSE TextOf(ArgAt(args, 2)),
                      !.chainId = IF Falsy(TextOf(ArgAt(args, 3))) THEN None
                                  ELSE Some(ParseInt(ArgAt(args, 3)))]
          IN  Result("transfer", ParseOptions(args, 4, o, TRUE), FALSE)

Environments ==
  { [KMS_KEY_ID |-> k, CHAIN_ID |-> c, RPC_URL |-> u] :
      k \in Opt({"env-key"}), c \in Opt({IntArg(1)}), u \in Opt({"env-rpc"}) }

KeyArg == Word("alias/my-key")
ToArg == Word("0xTo")

\* option arguments that may follow the positional ones
SignFlagLines ==
  { <<>>,
    <<Word("--chain-id"), IntArg(137)>>,
    <<Word("--rpc-url"), Word("rpc")>>,
    <<Word("--submit"), Word("--wait")>>,
    <<Word("--nonce"), IntArg(0), Word("--gas-limit"), Word("21000")>>,
    <<Word("--verbose")>> }

SignCommandLines ==
  { head \o positional \o flags :
      head \in { <<KeyArg, Word("transfer"), ToArg>>, <<KeyArg, ToArg>> },
      positional \in { <<>>, <<DecimalArg("0.001")>>, <<DecimalArg("0.001"), IntArg(1)>> },
      flags \in SignFlagLines }
  \cup
  { head \o positional \o flags :
      head \in { <<KeyArg, Word("call"), ToArg, Signature("deposit()", 0)>>,
                 <<KeyArg, Word("call"), ToArg, Signature("approve(address,uint256)", 2),
                   Word("0xSpender"), IntArg(1000)>> },
      positional \in { <<>>, <<DecimalArg("0.1"), IntArg(8453)>> },
      flags \in SignFlagLines }
  \cup
  { <<>>, <<KeyArg>>, <<KeyArg, Word("address")>>, <<KeyArg, Word("publickey")>>,
    <<KeyArg, Word("message")>>, <<KeyArg, Word("message"), Word("hi")>>,
    <<KeyArg, Word("transfer")>>, <<KeyArg, Word("call"), ToArg>> }

\* sign.ts main, line 385: parseArguments(); printUsage and process.exit(1)
\* end the program
SignCliParse(args, e) ==
  /\ pc = "idle"
  /\ op' = "cli/sign"
  /\ argv' = args
  /\ env' = e
  /\ cliOptions' = Some(parseArguments(args, e))
  /\ pc' = IF parseArguments(args, e).exit THEN "exited" ELSE "parsed"
  /\ UNCHANGED <<rev, transaction, draftVars, signRequests, signCommand, sigVars, error, warnings,
                 submitVars, keyVars, pubVars, cliCalls>>

\* the object literal of lines 453-464
TransactionOf(o) ==
  [to |-> o.to, value |-> o.value, data |-> o.data, chainId |-> o.chainId,
   rpcUrl |-> o.rpcUrl, nonce |-> o.nonce, gasLimit |-> o.gasLimit,
   gasPrice |-> o.gasPrice, maxFeePerGas |-> o.maxFeePerGas,
   maxPriorityFeePerGas |-> o.maxPriorityFeePerGas]

\* sign.ts main, lines 398-423: the first call of the command
SignCliMain ==
  /\ op = "cli/sign" /\ pc = "parsed"
  /\ LET command == Get(cliOptions).command
         o == Get(cliOptions).options
     IN  IF command = "address"
         THEN /\ cliCalls' = <<[fn |-> "getEthereumAddress", keyId |-> o.keyId]>>
              /\ pc' = "simple"
         ELSE IF command \in SimpleCommands
         THEN /\ cliCalls' = <<[fn |-> "getPublicKey", keyId |-> o.keyId]>>
              /\ pc' = "simple"
         ELSE IF command = "message"
         THEN /\ cliCalls' = <<[fn |-> "signMessage", keyId |-> o.keyId,
                                message |-> o.message]>>
              /\ pc' = "simple"
         ELSE /\ cliCalls' = <<[fn |-> "getEthereumAddress", keyId |-> o.keyId]>>
              /\ pc' = "address"
  /\ UNCHANGED <<inputVars, draftVars, signRequests, signCommand, sigVars, error, warnings,
                 submitVars, keyVars, pubVars, argv, env, cliOptions>>

\* sign.ts main, lines 466-497: a call has returned (ok) or thrown; the
\* catch block ends the program with process.exit(1)
SignCliAnswer(ok) ==
  /\ op = "cli/sign" /\ pc \in {"simple", "address", "signing", "submitting"}
  /\ LET o == Get(cliOptions).options
     IN  IF ~ok THEN pc' = "exited" /\ UNCHANGED cliCalls
         ELSE IF pc = "address"
         THEN /\ cliCalls' = Append(cliCalls,
                   [fn |-> "signTransaction", keyId |-> o.keyId,
                    transaction |-> TransactionOf(o)])
              /\ pc' = "signing"
         ELSE IF pc = "signing" /\ o.submit
         THEN /\ cliCalls' = Append(cliCalls,
                   [fn |-> "submitTransaction", rpcUrl |-> o.rpcUrl,
                    chainId |-> o.chainId,
                    waitForConfirmation |-> o.waitForConfirmation])
              /\ pc' = "submitting"
         ELSE pc' = "done" /\ UNCHANGED cliCalls
  /\ UNCHANGED <<inputVars, draftVars, signRequests, signCommand, sigVars, error, warnings,
                 submitVars, keyVars, pubVars, argv, env, cliOptions>>

SignedTxArg == Word("0x02f869")

SubmitCommandLines ==
  { head \o tail :
      head \in { <<>>, <<SignedTxArg>>, <<SignedTxArg, Word("https://rpc")>>,
                 <<SignedTxArg, Word("https://rpc"), IntArg(1)>>,
                 <<SignedTxArg, IntArg(84532)>>, <<SignedTxArg, IntArg(31337)>> },
      tail \in { <<>>, <<Word("--wait")>>, <<Word("-w")>> } }

\* process.argv.includes(flag)
Includes(args, flag) == \E i \in 1..Len(args) : args[i].text = flag

\* submit.ts main, lines 12-58: the arguments are read by position and the
\* library is called; without a signed transaction the program exits
SubmitCliMain(args, e) ==
  /\ pc = "idle"
  /\ op' = "cli/submit"
  /\ argv' = args
  /\ env' = e
  /\ LET signedTx0 == TextOf(ArgAt(args, 0))
         rpcUrl == IF Falsy(TextOf(ArgAt(args, 1))) THEN e.RPC_URL
                   ELSE TextOf(ArgAt(args, 1))
         chainId == IF Falsy(TextOf(ArgAt(args, 2))) THEN None
                    ELSE Some(ParseInt(ArgAt(args, 2)))
         waitForConfirmation == Includes(args, "--wait") \/ Includes(args, "-w")
     IN  IF Falsy(signedTx0)
         THEN pc' = "exited" /\ UNCHANGED cliCalls
         ELSE /\ cliCalls' =
                   << [fn |-> "getSignerAddress", signedTransaction |-> signedTx0,
                       chainId |-> chainId],
                      [fn |-> "submitTransaction", signedTransaction |-> signedTx0,
                       rpcUrl |-> rpcUrl, chainId |-> chainId,
                       waitForConfirmation |-> waitForConfirmation] >>
              /\ pc' = "submitting"
  /\ UNCHANGED <<rev, transaction, draftVars, signRequests, signCommand, sigVars, error, warnings,
                 submitVars, keyVars, pubVars, cliOptions>>

\* submit.ts main, lines 60-74 of src/cli/submit.ts: the result is printed, or the catch block
\* ends the program with process.exit(1)
SubmitCliAnswer(ok) ==
  /\ op = "cli/submit" /\ pc = "submitting"
  /\ pc' = IF ok THEN "done" ELSE "exited"
  /\ UNCHANGED <<inputVars, draftVars, signRequests, signCommand, sigVars, error, warnings,
                 submitVars, keyVars, pubVars, cliVars>>

CliNext ==
  \/ \E args \in SignCommandLines, e \in Environments : SignCliParse(args, e)
  \/ SignCliMain
  \/ \E ok \in BOOLEAN : SignCliAnswer(ok)
  \/ \E args \in SubmitCommandLines, e \in Environments : SubmitCliMain(args, e)
  \/ \E ok \in BOOLEAN : SubmitCliAnswer(ok)

CliSpec == Init /\ [][CliNext]_vars

Next ==
  \/ \E t \in Transactions : Web3Begin(t)
  \/ \E net \in Opt(0..MaxNonce) : Web3FetchNonce(net)
  \/ \E net \in Opt({30000}) : Web3GasLimit(net)
  \/ \E net \in Opt({3}) : Web3GasFees(net)
  \/ \E t \in Transactions, addressOk \in BOOLEAN : EthersBegin(t, addressOk)
  \/ \E net \in Opt(FeeDatas) : EthersGasFees(net)
  \/ MessageBegin
  \/ SendSignCommand
  \/ \E resp \in SignResponses : Web3ReceiveSignature(resp)
  \/ \E resp \in SignResponses : EthersReceiveSignature(resp)
  \/ \E resp \in SignResponses : MessageReceiveSignature(resp)

Spec == Init /\ [][Next]_vars

(***************************************************************************)
(* signTransaction (web3 revision) on complete requests, with a signer     *)
(* whose Signature field may be any of DerEncodings.                       *)
(***************************************************************************)
\* requests that name nonce, gas limit and fees, so that no network call
\* is made
DerTransactions ==
  { t \in Transactions :
      /\ t.to.valid /\ t.to.prefixed /\ t.value = None
      /\ t.nonce = Some(0) /\ IsSome(t.gasLimit)
      /\ t.chainId = Some(1) /\ t.rpcUrl = None
      /\ \/ IsSome(t.gasPrice) /\ ~IsSome(t.maxFeePerGas)
            /\ ~IsSome(t.maxPriorityFeePerGas)
         \/ ~IsSome(t.gasPrice) /\ IsSome(t.maxFeePerGas)
            /\ IsSome(t.maxPriorityFeePerGas) }

DerNext ==
  \/ \E t \in DerTransactions : Web3Begin(t)
  \/ Web3FetchNonce(None)
  \/ Web3GasLimit(None)
  \/ Web3GasFees(None)
  \/ SendSignCommand
  \/ \E resp \in DerResponses : Web3ReceiveSignature(resp)

DerSpec == Init /\ [][DerNext]_vars

(***************************************************************************)
(* Properties.                                                             *)
(***************************************************************************)
SigningTx == op = "signTransaction"
Parsed == SigningTx /\ sPadded # <<>>
Returned == SigningTx /\ pc = "returned"

\* the recovery id a signed transaction embeds (yParity, or v - chainId*2 - 35)
EmbeddedRecoveryId(stx) ==
  IF IsSome(stx.yParity) THEN Get(stx.yParity)
  ELSE Get(stx.v) - (stx.chainId * 2 + 35)

IsPrefix(a, b) == Len(a) <= Len(b) /\ a = SubSeq(b, 1, Len(a))

\* C1: for every signature whose s is a valid scalar, a high s (s > N/2) is
\* embedded as N - s, which is <= N/2, with sWasFlipped true; a low s is
\* embedded unchanged with sWasFlipped false; the canonical s is always
\* <= N/2.
C1_CanonicalS ==
  Parsed =>
    LET s == signResponse.s
        expected == IF Greater(s, HalfN) THEN Sub(SECP256K1_N, s) ELSE s
    IN  /\ sCanonical = expected
        /\ LessEq(sCanonical, HalfN)
        /\ (rev = "web3") => (sWasFlipped <=> Greater(s, HalfN))
        /\ IsSome(signedTx) => Get(signedTx).s = expected

C1_Witness ==
  /\ Returned
  /\ Greater(signResponse.s, HalfN)
  /\ Get(signedTx).s = Sub(SECP256K1_N, signResponse.s)
  /\ Get(signedTx).s # signResponse.s

\* C2: a returned signed transaction embeds a recovery id under which
\* (r, canonical s, digest) recovers the KMS key's own address.
C2_ReturnedRecoversSigner ==
  Returned =>
    EmbeddedRecoveryId(Get(signedTx)) =
      MatchingRecoveryId(signResponse.bit, signResponse.s)

\* C3: the candidates are tried in ascending order from the start of the
\* applicable range: <<0, 1>> for a typed transaction, and for a legacy one
\* <<2, 3>> when s was flipped, <<0, 1>> otherwise; a failed search tried the
\* whole range; a legacy candidate id is encoded as v = chainId*2 + 35 + id.
C3_CandidateRange ==
  (Parsed /\ rev = "web3") =>
    LET typed == Get(unsignedTx).type = "eip1559"
        range == IF typed THEN <<0, 1>>
                 ELSE IF sWasFlipped THEN <<2, 3>> ELSE <<0, 1>>
    IN  /\ tried # <<>>
        /\ IsPrefix(tried, range)
        /\ pc = "failed" => tried = range
        /\ (pc = "returned" /\ ~typed) =>
             Get(signedTx).v =
               Some(Get(unsignedTx).chainId * 2 + 35 + tried[Len(tried)])

C3_Witness ==
  /\ Parsed /\ rev = "web3"
  /\ tried = <<2, 3>>
  /\ Get(unsignedTx).type = "legacy"

\* C4: the search tries at most two candidates, stops at the first accepted
\* one, and when none is accepted it throws and returns no transaction.
C4_BoundedSearch ==
  (Parsed /\ rev = "web3") =>
    LET typed == Get(unsignedTx).type = "eip1559"
        chainId == Get(unsignedTx).chainId
        last == tried[Len(tried)]
    IN  /\ Len(tried) \in 1..2
        /\ \A i \in 1..(Len(tried) - 1) : ~FromTxDataAccepts(typed, chainId, tried[i])
        /\ IF FromTxDataAccepts(typed, chainId, last)
           THEN /\ pc = "returned"
                /\ EmbeddedRecoveryId(Get(signedTx)) = last
           ELSE /\ pc = "failed"
                /\ Len(tried) = 2
                /\ signedTx = None
                /\ error = "Could not construct signed transaction"

C4_Witness ==
  /\ Parsed /\ rev = "web3"
  /\ pc = "failed"
  /\ Len(tried) = 2
  /\ signedTx = None

\* C5: for a signature actually made by the key, the searched range holds
\* exactly one recovery id that matches the signer, the complementary
\* range (opposite flip assumption) holds none, and signing succeeds both
\* when s was flipped and when it was not.
C5_ExactlyOneMatch ==
  (Parsed /\ rev = "web3") =>
    LET typed == Get(unsignedTx).type = "eip1559"
        m == MatchingRecoveryId(signResponse.bit, signResponse.s)
        searched == IF typed \/ ~sWasFlipped THEN {0, 1} ELSE {2, 3}
        complement == IF sWasFlipped THEN {0, 1} ELSE {2, 3}
    IN  /\ Cardinality({id \in searched : id = m}) = 1
        /\ ~typed => {id \in complement : id = m} = {}
        /\ pc = "returned"

\* C6: the typed (EIP-1559) envelope is built if and only if the caller
\* supplied both maxFeePerGas and maxPriorityFeePerGas, and the sealed
\* transaction uses the same envelope as the unsigned preimage.
C6_EnvelopeChoice ==
  (SigningTx /\ rev = "web3" /\ IsSome(unsignedTx)) =>
    /\ (Get(unsignedTx).type = "eip1559") <=>
         (IsSome(transaction.maxFeePerGas) /\ IsSome(transaction.maxPriorityFeePerGas))
    /\ Get(unsignedTx).type \in {"eip1559", "legacy"}
    /\ IsSome(signedTx) => Get(signedTx).type = Get(unsignedTx).type

C6_Witness ==
  /\ Returned /\ rev = "web3"
  /\ Get(signedTx).type = "eip1559"
  /\ IsSome(transaction.gasPrice)

\* C7: the transaction that is serialized (unsigned and sealed) carries
\* either gasPrice or the pair (maxFeePerGas, maxPriorityFeePerGas), never
\* both and never a single typed-fee value alongside gasPrice.
ExclusiveFees(e) ==
  \/ IsSome(e.gasPrice) /\ ~IsSome(e.maxFeePerGas) /\ ~IsSome(e.maxPriorityFeePerGas)
  \/ ~IsSome(e.gasPrice) /\ IsSome(e.maxFeePerGas) /\ IsSome(e.maxPriorityFeePerGas)

C7_ExclusiveFeeModel ==
  SigningTx =>
    /\ IsSome(unsignedTx) => ExclusiveFees(Get(unsignedTx))
    /\ IsSome(signedTx) => ExclusiveFees(Get(signedTx))

\* C8: a call that supplies exactly one of maxFeePerGas /
\* maxPriorityFeePerGas together with gasPrice fails: no sign request is
\* sent and no transaction is returned.
AmbiguousFeeModel(t) ==
  /\ IsSome(t.gasPrice)
  /\ IsSome(t.maxFeePerGas) # IsSome(t.maxPriorityFeePerGas)

C8_AmbiguousFeeModelFails ==
  (SigningTx /\ AmbiguousFeeModel(transaction)) =>
    /\ signRequests = 0
    /\ signedTx = None
    /\ pc # "returned"

\* C9: the sealed transaction carries the same to, value, data, nonce,
\* chainId, gas limit and fee fields as the unsigned preimage whose digest
\* was signed; sealing only adds r, s and v / yParity.
C9_SealedKeepsFields ==
  Returned =>
    LET u == Get(unsignedTx)
        z == Get(signedTx)
    IN  /\ z.to = u.to /\ z.value = u.value /\ z.data = u.data
        /\ z.nonce = u.nonce /\ z.chainId = u.chainId
        /\ z.gasLimit = u.gasLimit /\ z.gasPrice = u.gasPrice
        /\ z.maxFeePerGas = u.maxFeePerGas
        /\ z.maxPriorityFeePerGas = u.maxPriorityFeePerGas
        /\ z.type = u.type
        /\ z.r = rPadded /\ z.s = sCanonical

C9_Witness ==
  /\ Returned
  /\ Get(signedTx).data # <<>>
  /\ Get(signedTx).gasLimit # DefaultGasLimit
  /\ Get(signedTx).nonce # 0

\* C10: a signTransaction or signMessage call sends exactly one sign
\* request on every path that reaches signing and none on a path that
\* fails earlier; iterating recovery candidates sends none.
FailedBeforeSigning ==
  error \in {"invalid address", "invalid transaction field", "Failed to get public key"}

C10_OneSignRequest ==
  /\ signRequests <= 1
  /\ pc \in {"awaitSign", "returned"} => signRequests = 1
  /\ pc \in {"idle", "nonce", "gasLimit", "gasFees", "gas", "sign"} => signRequests = 0
  /\ pc = "failed" => (signRequests = IF FailedBeforeSigning THEN 0 ELSE 1)

C10_Witness ==
  /\ pc = "failed"
  /\ Len(tried) = 2
  /\ signRequests = 1

\* C11: a failure of the network during the nonce fetch, the gas estimate
\* or the gas-price query of signTransaction is surfaced as an error: the
\* call has failed, without a sign request and without a transaction; no
\* call that logged such a failure as a warning goes on.
C11_NetworkFailureSurfaced ==
  (SigningTx /\ rev = "web3" /\ warnings > 0) =>
    /\ pc = "failed"
    /\ signRequests = 0
    /\ signedTx = None

\* C12: a submitTransaction call hands the signed transaction to the node
\* at most once, whatever the node answers afterwards (hash, receipt,
\* broadcast error, error while waiting), and an error the node gives as
\* its first answer to the broadcast fails the call with that error's
\* message and without a result.
Submitting == op = "submitTransaction"

C12_BroadcastAtMostOnce ==
  Submitting =>
    /\ broadcasts <= 1
    /\ pc \in {"awaitNode", "awaitReceipt", "blockNumber", "returned"} => broadcasts = 1
    /\ nodeEvents # <<>> => broadcasts = 1
    /\ (nodeEvents # <<>> /\ nodeEvents[1].type = "error") =>
         /\ pc = "failed"
         /\ error = "Transaction failed: " \o nodeEvents[1].message
         /\ submitResult = None

C12_Witness ==
  /\ Submitting
  /\ pc = "failed"
  /\ broadcasts = 1
  /\ Len(nodeEvents) = 3
  /\ nodeEvents[1].type = "error"
  /\ nodeEvents[1].message = "nonce too low"

\* C13: the key-material encoder accepts a scalar of exactly 32 bytes only.
\* A Buffer of another length fails with 'Private key must be exactly 32
\* bytes'; a key string whose length after removing an optional 0x prefix
\* is not 64, or that holds a character that is no hexadecimal digit, fails
\* importKMSKey with the length or format error before any KMS command is
\* sent.  No encoding is produced in either case, and every encoding
\* produced comes from exactly 32 bytes.
EncodingKey == op \in {"privateKeyToPKCS8", "importKMSKey"}

C13_OnlyExact32Bytes ==
  /\ (op = "privateKeyToPKCS8" /\ Len(privateKeyBytes) # 32) =>
       /\ pc = "failed"
       /\ error = "Private key must be exactly 32 bytes"
       /\ pkcs8KeyMaterial = <<>>
  /\ op = "importKMSKey" =>
       LET str == privateKeyHex
           prefixed == Len(str) >= 2 /\ str[1] = 0 /\ str[2] = CharX
           digits == IF prefixed THEN SubSeq(str, 3, Len(str)) ELSE str
           wrongLength == Len(digits) # 64
           notHex == \E i \in 1..Len(digits) : digits[i] \notin 0..15
       IN  (wrongLength \/ notHex) =>
             /\ pc = "failed"
             /\ error =
                  IF wrongLength
                  THEN "Failed to import key material: Invalid private key length: expected 64 hex characters (32 bytes)"
                  ELSE "Failed to import key material: Invalid private key format: must be hexadecimal"
             /\ pkcs8KeyMaterial = <<>>
             /\ kmsCommands = <<>>
  /\ (EncodingKey /\ pkcs8KeyMaterial # <<>>) => Len(privateKeyBytes) = 32

C13_Witness ==
  /\ op = "privateKeyToPKCS8"
  /\ Len(privateKeyBytes) = 33
  /\ pc = "failed"
  /\ pkcs8KeyMaterial = <<>>

\* Reading one DER tag-length-value at a 0-based offset: its tag, the
\* offset of its content and the declared length (short form, 0x81 and
\* 0x82 long forms)
TlvAt(buf, off) ==
  LET l0 == At(buf, off + 1) IN
  IF l0 < 128 THEN [tag |-> At(buf, off), start |-> off + 2, len |-> l0]
  ELSE IF l0 = 129
  THEN [tag |-> At(buf, off), start |-> off + 3, len |-> At(buf, off + 2)]
  ELSE [tag |-> At(buf, off), start |-> off + 4,
        len |-> At(buf, off + 2) * 256 + At(buf, off + 3)]

\* PrivateKeyInfo -> inner OCTET STRING -> ECPrivateKey -> privateKey
PKCS8Decode(der) ==
  LET info == TlvAt(der, 0)
      version == TlvAt(der, info.start)
      algorithm == TlvAt(der, version.start + version.len)
      inner == TlvAt(der, algorithm.start + algorithm.len)
      ecPrivateKey == TlvAt(der, inner.start)
      ecVersion == TlvAt(der, ecPrivateKey.start)
      privateKey == TlvAt(der, ecVersion.start + ecVersion.len)
  IN  [ok |-> /\ info.tag = 48 /\ version.tag = 2 /\ algorithm.tag = 48
              /\ inner.tag = 4 /\ ecPrivateKey.tag = 48 /\ ecVersion.tag = 2
              /\ privateKey.tag = 4
              /\ privateKey.start + privateKey.len = Len(der),
       scalar |-> Slice(der, privateKey.start, privateKey.start + privateKey.len)]

\* C14: for every 32-byte scalar, decoding the encoder's output as PKCS#8
\* gives back exactly the scalar, and the output is a function of the
\* scalar alone.
C14_RoundTrip ==
  (EncodingKey /\ pkcs8KeyMaterial # <<>>) =>
    /\ PKCS8Decode(pkcs8KeyMaterial).ok
    /\ PKCS8Decode(pkcs8KeyMaterial).scalar = privateKeyBytes
    /\ pkcs8KeyMaterial = privateKeyToPKCS8(privateKeyBytes).der

C14_Witness ==
  /\ op = "importKMSKey"
  /\ pkcs8KeyMaterial # <<>>
  /\ privateKeyBytes[1] = 0
  /\ privateKeyBytes[32] = 1
  /\ PKCS8Decode(pkcs8KeyMaterial).scalar = privateKeyBytes

\* C15: for every 32-byte scalar the output is SEQUENCE { INTEGER 0,
\* SEQUENCE { OID 1.2.840.10045.2.1, OID 1.3.132.0.10 }, OCTET STRING {
\* SEQUENCE { INTEGER 1, OCTET STRING scalar } } }: 64 bytes, every length
\* in the short form and equal to the byte length of its value.
Pkcs8Header ==
  << 48, 62,
       2, 1, 0,
       48, 16,
         6, 7, 42, 134, 72, 206, 61, 2, 1,
         6, 5, 43, 129, 4, 0, 10,
       4, 39,
         48, 37,
           2, 1, 1,
           4, 32 >>

C15_Structure ==
  (EncodingKey /\ pkcs8KeyMaterial # <<>>) =>
    LET der == pkcs8KeyMaterial IN
    /\ Len(der) = 64
    /\ der = Pkcs8Header \o privateKeyBytes
    /\ der[2] = Len(der) - 2
    /\ der[7] = Len(SubSeq(der, 8, 23))
    /\ der[25] = Len(SubSeq(der, 26, 64))
    /\ der[27] = Len(SubSeq(der, 28, 64))
    /\ der[32] = Len(privateKeyBytes)
    /\ \A i \in {2, 4, 7, 9, 18, 25, 27, 29, 32} : der[i] < 128

C15_Witness ==
  /\ op = "privateKeyToPKCS8"
  /\ pc = "returned"
  /\ Len(pkcs8KeyMaterial) = 64
  /\ privateKeyBytes[1] = 255

(***************************************************************************)
(* The Signature field read as DER, for the properties below.              *)
(***************************************************************************)
Answered == SigningTx /\ signResponse.kind = "signature"

InvalidDerErrors ==
  { "Invalid DER signature: expected SEQUENCE (0x30)",
    "Invalid DER signature: expected INTEGER (0x02) for r",
    "Invalid DER signature: expected INTEGER (0x02) for s" }

\* declared length of r, position of the element after r, its declared length
RLen(der) == At(der, 3)
SPos(der) == IF RLen(der) = Undefined THEN Undefined ELSE 4 + RLen(der)
SLen(der) == IF SPos(der) = Undefined THEN Undefined ELSE At(der, SPos(der) + 1)

TagsOk(der) ==
  /\ At(der, 0) = 48
  /\ At(der, 2) = 2
  /\ SPos(der) # Undefined /\ At(der, SPos(der)) = 2

\* the content bytes of r and s as declared
RBody(der) == Slice(der, 4, 4 + RLen(der))
SBody(der) == Slice(der, SPos(der) + 2, SPos(der) + 2 + SLen(der))

\* a non-negative DER INTEGER in its shortest form
MinimalPositive(b) ==
  /\ Len(b) >= 1
  /\ b[1] < 128
  /\ (Len(b) > 1 /\ b[1] = 0) => b[2] >= 128

WellFormed(der) ==
  /\ TagsOk(der)
  /\ At(der, 1) = Len(der) - 2
  /\ SLen(der) # Undefined
  /\ SPos(der) + 2 + SLen(der) = Len(der)
  /\ Len(RBody(der)) = RLen(der) /\ Len(SBody(der)) = SLen(der)
  /\ MinimalPositive(RBody(der)) /\ MinimalPositive(SBody(der))
  /\ Len(StripZeros(RBody(der))) <= 32 /\ Len(StripZeros(SBody(der))) <= 32

\* C16: for a signature whose r and s are DER INTEGERs of value below
\* 2^256, the r and s produced are 32 bytes each and have the value of the
\* encoded integers: a leading 0x00 sign byte is removed and the magnitude
\* is left-padded with zeros.
C16_FixedWidthSameValue ==
  (Answered /\ WellFormed(derSignature)) =>
    /\ Len(rPadded) = 32 /\ Len(sPadded) = 32
    /\ StripZeros(rPadded) = StripZeros(RBody(derSignature))
    /\ StripZeros(sPadded) = StripZeros(SBody(derSignature))
    /\ error \notin InvalidDerErrors

C16_Witness ==
  /\ Answered /\ WellFormed(derSignature)
  /\ RBody(derSignature) = <<0, 128>>
  /\ Len(SBody(derSignature)) = 33
  /\ rPadded = Zeros(31) \o <<128>>
  /\ sPadded = Sub(SECP256K1_N, One32)

\* C17: a signature that does not start with the SEQUENCE tag, or whose
\* element at r's position or at s's position does not carry the INTEGER
\* tag, fails signTransaction with an invalid-DER-signature error; no
\* transaction is returned.
C17_WrongTagFails ==
  (Answered /\ ~TagsOk(derSignature)) =>
    /\ pc = "failed"
    /\ error \in InvalidDerErrors
    /\ signedTx = None
    /\ rPadded = <<>> /\ sPadded = <<>>

C17_Witness ==
  /\ Answered
  /\ At(derSignature, 0) = 48 /\ At(derSignature, 2) = 2
  /\ At(derSignature, SPos(derSignature)) = 3
  /\ pc = "failed"
  /\ error = "Invalid DER signature: expected INTEGER (0x02) for s"

\* a declared length that exceeds the bytes that follow it
Truncated(der) ==
  \/ At(der, 1) = Undefined \/ At(der, 1) > Len(der) - 2
  \/ /\ At(der, 2) = 2
     /\ RLen(der) = Undefined \/ RLen(der) > Len(der) - 4
  \/ /\ SPos(der) # Undefined /\ At(der, SPos(der)) = 2
     /\ SLen(der) = Undefined \/ SLen(der) > Len(der) - (SPos(der) + 2)

\* C18: a signature in which a declared length (of the SEQUENCE, of r or of
\* s) exceeds the bytes remaining fails signTransaction with a decoding
\* error; no transaction is returned and no r or s is built from the
\* shortened bytes.
C18_TruncatedFails ==
  (Answered /\ Truncated(derSignature)) =>
    /\ pc = "failed"
    /\ error \in InvalidDerErrors
    /\ signedTx = None
    /\ rPadded = <<>> /\ sPadded = <<>>

\* C19: a signature whose r or s is a zero-length INTEGER fails
\* signTransaction with an invalid-DER-signature error; the empty integer
\* is not taken as the value 0 and no transaction is returned.
ZeroLengthInteger(der) ==
  TagsOk(der) /\ (RLen(der) = 0 \/ SLen(der) = 0)

C19_ZeroLengthFails ==
  (Answered /\ ZeroLengthInteger(derSignature)) =>
    /\ pc = "failed"
    /\ error \in InvalidDerErrors
    /\ signedTx = None
    /\ rPadded # Zeros(32) /\ sPadded # Zeros(32)

\* exported forms of a secp256k1 public key
IsRawPoint(b) == Len(b) = 65 /\ b[1] = 4
IsSpki(b) ==
  /\ Len(b) = 88
  /\ SubSeq(b, 1, 22) = SpkiHeader(66)
  /\ b[23] = 0 /\ b[24] = 4

\* the point 0x04 || X || Y a response holds
PointOf(b) == IF IsRawPoint(b) THEN b ELSE SubSeq(b, 24, 88)

GotPublicKeyBytes ==
  /\ op \in {"getPublicKey", "getEthereumAddress"}
  /\ pc \in {"returned", "failed"}
  /\ error \notin { "Failed to get public key: KMS request failed",
                    "Failed to get public key: Failed to get public key from KMS" }

\* C20: a response that is the raw 65-byte point or its SubjectPublicKeyInfo
\* wrapping gives the same point 0x04 || X || Y, and getEthereumAddress the
\* address of X || Y; every key returned begins with 0x04 and has 65 bytes;
\* every other response fails with a 'Failed to get public key' error.
C20_PublicKeyForms ==
  GotPublicKeyBytes =>
    /\ (IsRawPoint(publicKeyBytes) \/ IsSpki(publicKeyBytes)) =>
         /\ pc = "returned"
         /\ publicKey = PointOf(publicKeyBytes)
         /\ op = "getEthereumAddress" =>
              address = Some([keccak256 |-> SubSeq(PointOf(publicKeyBytes), 2, 65)])
    /\ pc = "returned" => (Len(publicKey) = 65 /\ publicKey[1] = 4)
    /\ ~(IsRawPoint(publicKeyBytes) \/ IsSpki(publicKeyBytes)) =>
         /\ pc = "failed"
         /\ SubSeq(error, 1, 26) = "Failed to get public key: "
         /\ publicKey = <<>>

\* C21: the data payload is passed through unmodified: the data of the
\* unsigned transaction and of the signed transaction of a signTransaction
\* call are the hex digits the caller supplied, with or without the 0x
\* prefix and whatever their number, and an absent payload gives empty data.
RECURSIVE BytesToHex(_)
BytesToHex(b) ==
  IF b = <<>> THEN <<>>
  ELSE <<Head(b) \div 16, Head(b) % 16>> \o BytesToHex(Tail(b))

SuppliedData ==
  IF IsSome(transaction.data) THEN Get(transaction.data).digits ELSE <<>>

C21_DataPassedThrough ==
  SigningTx =>
    /\ IsSome(unsignedTx) => BytesToHex(Get(unsignedTx).data) = SuppliedData
    /\ IsSome(signedTx) => BytesToHex(Get(signedTx).data) = SuppliedData

\* C22: the endpoint of a submitTransaction call is the explicit rpcUrl
\* when one is given, also when a chainId is given with it; otherwise the
\* configured RPC URL of the chainId when that chain is known; otherwise
\* the call fails with 'RPC URL required' before a provider is created
\* and before anything is handed to a node.
C22_EndpointChoice ==
  Submitting =>
    LET o == Get(options)
        known == IsSome(o.chainId) /\ Get(o.chainId) \in KnownChainIds
    IN  /\ IsSome(o.rpcUrl) => providerUrl = o.rpcUrl
        /\ (~IsSome(o.rpcUrl) /\ known) => providerUrl = Some("default-rpc")
        /\ (~IsSome(o.rpcUrl) /\ ~known) =>
             /\ pc = "failed"
             /\ error = "RPC URL required"
             /\ providerUrl = None
             /\ broadcasts = 0
             /\ nodeEvents = <<>>
        /\ broadcasts > 0 => IsSome(providerUrl)

C22_Witness ==
  /\ Submitting
  /\ IsSome(Get(options).rpcUrl)
  /\ Get(options).chainId = Some(1)
  /\ providerUrl = Some("rpc")
  /\ broadcasts = 1

\* C23: without waitForConfirmation a submitTransaction call completes as
\* soon as the node has reported the transaction hash, with a result that
\* holds the hash and nothing else, whether or not a receipt has arrived;
\* with waitForConfirmation it completes only after the receipt is
\* available, and its result carries the hash, the block number and the
\* status of that receipt together with a confirmation count.
Waits == Get(options).waitForConfirmation

C23_WaitForConfirmation ==
  Submitting =>
    /\ (~Waits /\ pc = "returned") =>
          /\ submitResult = Some(HashResult)
          /\ "transactionHash" \in EventTypes(nodeEvents)
    /\ (~Waits /\ pc = "awaitNode") =>
          "transactionHash" \notin EventTypes(nodeEvents)
    /\ (Waits /\ pc = "returned") =>
          /\ "receipt" \in EventTypes(nodeEvents)
          /\ IsSome(submitResult)
          /\ Get(submitResult).txHash = "hash"
          /\ Get(submitResult).blockNumber = EmittedReceipt.blockNumber
          /\ Get(submitResult).status = EmittedReceipt.status
          /\ IsSome(Get(submitResult).confirmations)
    /\ pc # "returned" => submitResult = None

C23_Witness ==
  /\ Submitting /\ rev = "ethers" /\ Waits
  /\ pc = "returned"
  /\ Len(nodeEvents) = 2
  /\ Get(submitResult).blockNumber = Some(5)
  /\ Get(submitResult).status = Some(1)

\* C29: in the event-driven submitTransaction every failure after the
\* broadcast reaches the caller as an error that starts with
\* 'Transaction failed:', whatever the order of the transactionHash,
\* receipt and error events, and a settled call holds either a result or an
\* error, never both.
EventDriven == Submitting /\ rev = "web3-events" /\ broadcasts > 0

C29_FailuresPrefixed ==
  EventDriven =>
    /\ pc = "failed" =>
          /\ StartsWith(error, "Transaction failed:")
          /\ submitResult = None
    /\ pc = "returned" => (IsSome(submitResult) /\ error = "")

\* once settled, the outcome of the event-driven call is not changed by an
\* event that arrives later
C29_SettledOnce ==
  [][(EventDriven /\ pc \in {"returned", "failed"}) =>
       UNCHANGED <<pc, error, submitResult>>]_vars

\* C24: the command line `submit <SIGNED_TX> <CHAIN_ID> --wait`, with the
\* id of a known chain and no URL, calls submitTransaction with chainId set
\* to that id, with an rpcUrl that is not the id, and with
\* waitForConfirmation true.
ChainIdThenWait ==
  /\ op = "cli/submit"
  /\ Len(argv) = 3
  /\ argv[2].numeric /\ argv[2].int \in KnownChainIds
  /\ argv[3].text = "--wait"

SubmitCall == cliCalls[Len(cliCalls)]

C24_ChainIdSelectsRpc ==
  (ChainIdThenWait /\ cliCalls # <<>>) =>
    /\ SubmitCall.fn = "submitTransaction"
    /\ SubmitCall.chainId = Some(argv[2].int)
    /\ SubmitCall.rpcUrl # Some(argv[2].text)
    /\ SubmitCall.waitForConfirmation

\* C25: for every transaction-signing form of the sign command line
\* (transfer, call, and the positional <KEY_ID> <TO> [VALUE] [CHAIN_ID]),
\* when the command line names no chain id, the chainId given to
\* signTransaction is the value of CHAIN_ID in the environment, or 84532
\* without it, and without an --rpc-url the rpcUrl is RPC_URL of the
\* environment.
ChainIdOnCommandLine ==
  \E i \in 1..Len(argv) :
    \/ argv[i].text \in {"--chain-id", "-c"}
    \/ i >= 3 /\ argv[i].numeric /\ ~argv[i].decimal

RpcUrlOnCommandLine == \E i \in 1..Len(argv) : argv[i].text \in {"--rpc-url", "-r"}

EnvChainId == IF IsSome(env.CHAIN_ID) THEN Get(env.CHAIN_ID).int ELSE DefaultChainId

SignTransactionCalled ==
  /\ op = "cli/sign"
  /\ Len(cliCalls) >= 2
  /\ cliCalls[2].fn = "signTransaction"

C25_ChainIdDefault ==
  (SignTransactionCalled /\ ~ChainIdOnCommandLine) =>
    /\ cliCalls[2].transaction.chainId = Some(EnvChainId)
    /\ ~RpcUrlOnCommandLine => cliCalls[2].transaction.rpcUrl = env.RPC_URL

\* C26: signTransaction sends its sign request only after the draft is
\* complete and the unsigned transaction built, the message of the request
\* is the 32-byte hash of that unsigned transaction with MessageType
\* DIGEST, a call that fails before that has not contacted the signer, and
\* no step after the request changes a field of the draft.
C26_SignAfterDraft ==
  [][ /\ (SigningTx' /\ signRequests' > 0) =>
            /\ IsSome(unsignedTx')
            /\ signCommand' = Some(SignCommandOf(Keccak256(Get(unsignedTx'))))
            /\ Get(signCommand').Message.length = 32
            /\ Get(signCommand').MessageType = "DIGEST"
      /\ (SigningTx' /\ signRequests' = 0) => signCommand' = None
      /\ (SigningTx' /\ unsignedTx' = None) => signRequests' = 0
      /\ (SigningTx /\ signRequests > 0) => UNCHANGED draftVars ]_vars

C26_Witness ==
  /\ SigningTx /\ pc = "returned"
  /\ signRequests = 1
  /\ IsSome(signedTx)
  /\ Get(signCommand).Message = Keccak256(Get(unsignedTx))
  /\ Get(signCommand).MessageType = "DIGEST"

\* C27: a nonce (0 included), a gas limit or a gas price supplied by the
\* caller of signTransaction is the nonce, gas limit or gas price of the
\* signed transaction; it is never replaced by a value fetched from the
\* network or by a default.  (A gas price supplied together with both
\* typed-fee values is left aside: the typed envelope has no gas price.)
SuppliedTypedFees ==
  IsSome(transaction.maxFeePerGas) /\ IsSome(transaction.maxPriorityFeePerGas)

C27_SuppliedFieldsKept ==
  (SigningTx /\ IsSome(signedTx)) =>
    /\ IsSome(transaction.nonce) => Get(signedTx).nonce = Get(transaction.nonce)
    /\ IsSome(transaction.gasLimit) => Get(signedTx).gasLimit = Get(transaction.gasLimit)
    /\ (IsSome(transaction.gasPrice) /\ ~SuppliedTypedFees) =>
          Get(signedTx).gasPrice = transaction.gasPrice

\* C28: importKMSKey validates and encodes the key before its first
\* request; it then sends CreateKey (Origin EXTERNAL),
\* GetParametersForImport and ImportKeyMaterial in this order, each once
\* and each only after the one before has been answered with success; it
\* returns a result only after ImportKeyMaterial has succeeded, and a
\* failure of one of these steps gives an error and no result.
Importing == op = "importKMSKey"

ImportOrder ==
  <<"CreateKey", "GetParametersForImport", "ImportKeyMaterial", "CreateAlias",
    "PutKeyPolicy">>

CommandNames == [i \in 1..Len(kmsCommands) |-> kmsCommands[i].name]

C28_ImportSequence ==
  Importing =>
    /\ Len(kmsCommands) <= Len(ImportOrder)
    /\ CommandNames = SubSeq(ImportOrder, 1, Len(kmsCommands))
    /\ kmsCommands # <<>> =>
          /\ KeyStringError(privateKeyHex) = ""
          /\ privateKeyBytes = HexToBytes(NormalizedKey(privateKeyHex))
          /\ pkcs8KeyMaterial = privateKeyToPKCS8(privateKeyBytes).der
          /\ kmsCommands[1].Origin = "EXTERNAL"
    /\ pc = "createKey" => Len(kmsCommands) = 1
    /\ pc = "getParams" => Len(kmsCommands) = 2
    /\ pc = "importMaterial" => Len(kmsCommands) = 3
    /\ IsSome(importResult) => (pc = "returned" /\ Len(kmsCommands) = 5)
    /\ pc = "returned" => IsSome(importResult)
    /\ pc = "failed" =>
          /\ importResult = None
          /\ Len(kmsCommands) <= 3
          /\ StartsWith(error, "Failed to import key material: ")

C28_Witness ==
  /\ Importing /\ pc = "returned"
  /\ CommandNames = ImportOrder
  /\ IsSome(importResult)

\* C30: whenever createKMSKey or importKMSKey returns an aliasName that
\* begins with 'alias/', that alias targets the keyId returned by the same
\* call; otherwise aliasName is the keyId; and a failure of the alias
\* creation or of the key-policy update does not fail the call, which
\* still returns keyId and keyArn.
KeyCall == op \in {"createKMSKey", "importKMSKey"}

KeyCallResult == IF op = "createKMSKey" THEN createResult ELSE importResult

AliasStepReached ==
  \E i \in 1..Len(kmsCommands) : kmsCommands[i].name = "CreateAlias"

C30_OptionalStepsNeverFail ==
  KeyCall =>
    /\ AliasStepReached => pc \in {"alias", "policy", "returned"}
    /\ pc = "returned" =>
          /\ IsSome(KeyCallResult)
          /\ Get(KeyCallResult).keyId = NewKeyId
          /\ Get(KeyCallResult).keyArn = NewKeyArn
          /\ ~StartsWith(Get(KeyCallResult).aliasName, "alias/") =>
                Get(KeyCallResult).aliasName = Get(KeyCallResult).keyId

C30_AliasTargetsKey ==
  /\ C30_OptionalStepsNeverFail
  /\ (KeyCall /\ pc = "returned"
        /\ StartsWith(Get(KeyCallResult).aliasName, "alias/")) =>
       kmsAliasTarget = Some(Get(KeyCallResult).keyId)
====
